---- MODULE Spec2Model ----
(***************************************************************************)
(* Model of the CDKeys / Steam price comparison server                     *)
(* (src/server-Copy1.js, second revision in the file, lines 740-1932; the  *)
(* single-stage revision in src/server.js shares parsePrice,               *)
(* formatPriceFromCents and the savings arithmetic).                       *)
(*                                                                         *)
(* Strings are TLA+ strings; JavaScript numbers are records so that NaN   *)
(* can be represented next to the integers.                                *)
(***************************************************************************)
EXTENDS Integers, Sequences, FiniteSets, TLC

(***************************************************************************)
(* Strings                                                                 *)
(***************************************************************************)

\* s.charAt(i-1)
CharAt(s, i) == SubSeq(s, i, i)

\* the characters \s matches, among those the model's inputs use
IsWs(c) == c = " "

IsDigit(c) == c \in {"0", "1", "2", "3", "4", "5", "6", "7", "8", "9"}

DigitVal(c) ==
    CASE c = "0" -> 0 [] c = "1" -> 1 [] c = "2" -> 2 [] c = "3" -> 3
      [] c = "4" -> 4 [] c = "5" -> 5 [] c = "6" -> 6 [] c = "7" -> 7
      [] c = "8" -> 8 [] c = "9" -> 9

DigitChar(d) ==
    CASE d = 0 -> "0" [] d = 1 -> "1" [] d = 2 -> "2" [] d = 3 -> "3"
      [] d = 4 -> "4" [] d = 5 -> "5" [] d = 6 -> "6" [] d = 7 -> "7"
      [] d = 8 -> "8" [] d = 9 -> "9"

\* one character of String.prototype.toLowerCase / of the regex flag i
LowerChar(c) ==
    CASE c = "A" -> "a" [] c = "B" -> "b" [] c = "C" -> "c" [] c = "D" -> "d"
      [] c = "E" -> "e" [] c = "F" -> "f" [] c = "G" -> "g" [] c = "H" -> "h"
      [] c = "I" -> "i" [] c = "J" -> "j" [] c = "K" -> "k" [] c = "L" -> "l"
      [] c = "M" -> "m" [] c = "N" -> "n" [] c = "O" -> "o" [] c = "P" -> "p"
      [] c = "Q" -> "q" [] c = "R" -> "r" [] c = "S" -> "s" [] c = "T" -> "t"
      [] c = "U" -> "u" [] c = "V" -> "v" [] c = "W" -> "w" [] c = "X" -> "x"
      [] c = "Y" -> "y" [] c = "Z" -> "z" [] OTHER -> c

RECURSIVE ToLowerCase(_)
ToLowerCase(s) ==
    IF Len(s) = 0 THEN "" ELSE LowerChar(CharAt(s, 1)) \o ToLowerCase(Tail(s))

\* s.includes(t)
Includes(s, t) ==
    \E i \in 1..(Len(s) - Len(t) + 1) : SubSeq(s, i, i + Len(t) - 1) = t

RECURSIVE TrimStart(_)
TrimStart(s) ==
    IF Len(s) > 0 /\ IsWs(CharAt(s, 1)) THEN TrimStart(Tail(s)) ELSE s

RECURSIVE TrimEnd(_)
TrimEnd(s) ==
    IF Len(s) > 0 /\ IsWs(CharAt(s, Len(s)))
    THEN TrimEnd(SubSeq(s, 1, Len(s) - 1)) ELSE s

\* s.trim()
Trim(s) == TrimEnd(TrimStart(s))

\* s.replace(/[...]/g, '') for a character class given as a set of characters
RECURSIVE RemoveChars(_, _)
RemoveChars(s, class) ==
    IF Len(s) = 0 THEN ""
    ELSE (IF CharAt(s, 1) \in class THEN "" ELSE CharAt(s, 1))
         \o RemoveChars(Tail(s), class)

(***************************************************************************)
(* Regular expressions anchored at the end of the input.  A pattern is a   *)
(* sequence of elements: "\\s+", "\\s*", ".*", "-?" or a literal, compared *)
(* without regard to case (flag i).  Every pattern of the program ends in  *)
(* $, so a match always runs to the end of the string.                     *)
(***************************************************************************)
RECURSIVE MatchEnd(_, _, _, _)
MatchEnd(pat, k, s, i) ==
    IF k > Len(pat) THEN i = Len(s) + 1
    ELSE LET e == pat[k] IN
         CASE e = "\\s+" ->
                \E j \in (i + 1)..(Len(s) + 1) :
                    /\ \A x \in i..(j - 1) : IsWs(CharAt(s, x))
                    /\ MatchEnd(pat, k + 1, s, j)
           [] e = "\\s*" ->
                \E j \in i..(Len(s) + 1) :
                    /\ \A x \in i..(j - 1) : IsWs(CharAt(s, x))
                    /\ MatchEnd(pat, k + 1, s, j)
           [] e = ".*" ->
                \E j \in i..(Len(s) + 1) : MatchEnd(pat, k + 1, s, j)
           [] e = "-?" ->
                \/ i <= Len(s) /\ CharAt(s, i) = "-" /\ MatchEnd(pat, k + 1, s, i + 1)
                \/ MatchEnd(pat, k + 1, s, i)
           [] OTHER ->
                /\ i + Len(e) - 1 <= Len(s)
                /\ ToLowerCase(SubSeq(s, i, i + Len(e) - 1)) = ToLowerCase(e)
                /\ MatchEnd(pat, k + 1, s, i + Len(e))

\* the least element of a set of positions; 0 for the empty set
Least(S) == IF S = {} THEN 0 ELSE CHOOSE i \in S : \A j \in S : i <= j

\* the greatest element of a non-empty set of positions
Greatest(S) == CHOOSE i \in S : \A j \in S : j <= i

\* where the leftmost match of any of the alternatives starts; 0 when none
MatchStart(pats, s) ==
    Least({i \in 1..(Len(s) + 1) : \E p \in pats : MatchEnd(p, 1, s, i)})

\* s without what follows position i - 1; s itself for i = 0
CutAt(s, i) == IF i = 0 THEN s ELSE SubSeq(s, 1, i - 1)

\* s.replace(/pattern$/i, '')
ReplaceEnd(s, pats) == CutAt(s, MatchStart(pats, s))

(***************************************************************************)
(* JavaScript numbers: an integer or NaN.                                  *)
(***************************************************************************)
Num(n) == [nan |-> FALSE, inf |-> 0, v |-> n]

NaN == [nan |-> TRUE, inf |-> 0, v |-> 0]

\* Infinity (sign 1) and -Infinity (sign -1)
Infinity(sign) == [nan |-> FALSE, inf |-> sign, v |-> 0]

\* a - b, for operands that are finite or NaN
JSSub(a, b) == IF a.nan \/ b.nan THEN NaN ELSE Num(a.v - b.v)

\* a >= b, for operands that are finite or NaN (false as soon as one is NaN)
JSGe(a, b) == ~a.nan /\ ~b.nan /\ a.v >= b.v

\* Math.round((a / b) * 100) for finite or NaN operands, in exact arithmetic:
\* x / 0 is NaN, Infinity or -Infinity, and Math.round rounds halves up
JSPercent(a, b) ==
    IF a.nan \/ b.nan THEN NaN
    ELSE IF b.v = 0
         THEN (IF a.v = 0 THEN NaN ELSE Infinity(IF a.v > 0 THEN 1 ELSE -1))
    ELSE IF b.v > 0 THEN Num((200 * a.v + b.v) \div (2 * b.v))
    ELSE Num((200 * (0 - a.v) + (0 - b.v)) \div (2 * (0 - b.v)))

\* the characters that stand for the symbols of the source: the won sign,
\* the euro sign, the pound sign, and the Korean word for "free"
WON == "#"

EURO == "&"

POUND == "%"

FREE == "MURYO"

(***************************************************************************)
(* The products a listing page of source A can show                        *)
(***************************************************************************)
\* what page.evaluate extracts from one .product-item
RawItems ==
    { [originalName |-> "Halo PC", price |-> "$29.99", url |-> "a/halo"],
      [originalName |-> "Doom: Eternal", price |-> "#1,000", url |-> "a/doom-eternal"],
      [originalName |-> "Doom", price |-> "N/A", url |-> "a/doom"],
      [originalName |-> "Quake Steam Key", price |-> "#TBD", url |-> "a/quake"] }

\* products whose link text has two spaces in a row, a colon, or a price
\* without a currency symbol
WideItems ==
    { [originalName |-> "Halo  Reach", price |-> "$29.99", url |-> "a/halo-reach"],
      [originalName |-> "Doom: Eternal", price |-> "#1,000", url |-> "a/doom-eternal"],
      [originalName |-> "Doom", price |-> "N/A", url |-> "a/doom"] }

\* the titles POST /api/test-clean-name is given: names of products with the keywords of the listing site behind them
Titles ==
    { b \o e : b \in {"Halo", "AB", "Some Game", "Doom: Eternal", " Portal 2"},
               e \in {"", " PC", " (PC/Mac)", " Steam Key", " PC Key", " DLC PC",
                      " - PC", " Edition", " Global ", " PC-DLC"} }

(***************************************************************************)
(* cleanGameName                                                           *)
(***************************************************************************)
S1 == "\\s+"

S0 == "\\s*"

platformPatterns ==
    << <<S1, "PC-DLC", S0>>, <<S1, "(PC-DLC)", S0>>, <<S1, "-", S0, "PC-DLC", S0>>,
       <<S1, "PC - DLC", S0>>, <<S1, "(PC/Mac)", S0>>, <<S1, "-", S0, "PC/Mac", S0>>,
       <<S1, "[PC/Mac]", S0>>, <<S1, "PC/Mac", S0, "-", S0>>,
       <<S1, "PC/Mac", S0, "-?", S0>>, <<S1, "PC/Mac", S1, "-", S0>>,
       <<S1, "(PC/Mac)", S0, "-?", S0>>,
       <<S1, "PC", S0>>, <<S1, "(PC)", S0>>, <<S1, "-", S0, "PC", S0>>,
       <<S1, "DLC", S0>>, <<S1, "(DLC)", S0>>, <<S1, "-", S0, "DLC", S0>>,
       <<S1, "Steam", S0>>, <<S1, "(Steam)", S0>>, <<S1, "-", S0, "Steam", S0>>,
       <<S1, "Steam", S1, "Key", S0>>, <<S1, "Steam", S1, "Code", S0>>,
       <<S1, "Key", S0>>, <<S1, "Code", S0>>, <<S1, "(Key)", S0>>, <<S1, "(Code)", S0>>,
       <<S1, "Digital", S0>>, <<S1, "(Digital)", S0>>,
       <<S1, "Digital", S1, "Download", S0>>, <<S1, "Download", S0>>,
       <<S1, "Global", S0>>, <<S1, "[Global]", S0>>, <<S1, "(Global)", S0>>,
       <<S1, "Worldwide", S0>>, <<S1, "[Worldwide]", S0>>,
       <<S1, "EU", S0>>, <<S1, "US", S0>>, <<S1, "UK", S0>>, <<S1, "ROW", S0>>,
       <<S1, "Edition", S0>>, <<S1, "Game", S0>>, <<S1, "(Game)", S0>> >>

\* platformPatterns.forEach: the patterns k.. applied in order to beforeClean
\* (no pattern matches the empty string, which is therefore final)
RECURSIVE ApplyPatterns(_, _)
ApplyPatterns(beforeClean, k) ==
    IF k > Len(platformPatterns) THEN beforeClean
    ELSE LET afterClean == Trim(ReplaceEnd(beforeClean, {platformPatterns[k]}))
         IN  IF afterClean = "" THEN "" ELSE ApplyPatterns(afterClean, k + 1)

\* the safety check with the absolute threshold alone
safetyCheckLengthOnly(originalName, cleanName) ==
    IF Len(cleanName) < 3 THEN originalName ELSE cleanName

\* the safety check: cleanLength < 3 || cleanLength / originalLength < 0.3
\* (the ratio compared in integers)
safetyCheck(originalName, cleanName) ==
    IF Len(cleanName) < 3 \/ Len(cleanName) * 10 < 3 * Len(originalName)
    THEN originalName
    ELSE cleanName

cleanGameName(originalName) ==
    safetyCheck(originalName, ApplyPatterns(Trim(originalName), 1))

\* cleanGameName of the names of the listed products and of the titles,
\* evaluated once
cleanNames ==
    [n \in {r.originalName : r \in RawItems \cup WideItems} \cup Titles |-> cleanGameName(n)]

cleanNameOf(originalName) ==
    IF originalName \in DOMAIN cleanNames THEN cleanNames[originalName]
    ELSE cleanGameName(originalName)

(***************************************************************************)
(* parsePrice and formatPriceFromCents                                     *)
(***************************************************************************)
\* the digits at the head of s
RECURSIVE LeadingDigits(_)
LeadingDigits(s) ==
    IF Len(s) > 0 /\ IsDigit(CharAt(s, 1))
    THEN CharAt(s, 1) \o LeadingDigits(Tail(s)) ELSE ""

RECURSIVE DigitsValue(_)
DigitsValue(d) ==
    IF Len(d) = 0 THEN 0
    ELSE 10 * DigitsValue(SubSeq(d, 1, Len(d) - 1)) + DigitVal(CharAt(d, Len(d)))

RECURSIVE Pow10(_)
Pow10(k) == IF k = 0 THEN 1 ELSE 10 * Pow10(k - 1)

\* whether t starts with a minus sign
Negative(t) == Len(t) > 0 /\ CharAt(t, 1) = "-"

\* t without its sign
Unsigned(t) == IF Len(t) > 0 /\ CharAt(t, 1) \in {"-", "+"} THEN Tail(t) ELSE t

IntegerOf(d, neg) ==
    IF Len(d) = 0 THEN NaN
    ELSE Num(IF neg THEN 0 - DigitsValue(d) ELSE DigitsValue(d))

SignedInteger(t) == IntegerOf(LeadingDigits(Unsigned(t)), Negative(t))

\* parseInt(s): white space, an optional sign, then digits; NaN when there is
\* no digit
parseInt(s) == SignedInteger(TrimStart(s))

\* the digits that follow the decimal point at the head of rest, if any
FractionDigits(rest) ==
    IF Len(rest) > 0 /\ CharAt(rest, 1) = "." THEN LeadingDigits(Tail(rest)) ELSE ""

FractionOf(ip, fp, neg) ==
    IF Len(ip) = 0 /\ Len(fp) = 0 THEN [nan |-> TRUE, num |-> 0, den |-> 1]
    ELSE [nan |-> FALSE,
          num |-> IF neg THEN 0 - DigitsValue(ip \o fp) ELSE DigitsValue(ip \o fp),
          den |-> Pow10(Len(fp))]

DecimalOf(u, ip, neg) ==
    FractionOf(ip, FractionDigits(SubSeq(u, Len(ip) + 1, Len(u))), neg)

UnsignedDecimal(u, neg) == DecimalOf(u, LeadingDigits(u), neg)

SignedDecimal(t) == UnsignedDecimal(Unsigned(t), Negative(t))

\* parseFloat(s) as a fraction num / den: white space, an optional sign,
\* digits, and an optional point followed by digits (exponents are not
\* modelled); NaN when there is no digit
parseFloat(s) == SignedDecimal(TrimStart(s))

\* Math.floor(x * rate)
FloorTimes(x, rate) ==
    IF x.nan THEN NaN ELSE Num((x.num * rate) \div x.den)

\* Math.round(x * rate) for x = parseFloat(...), in exact arithmetic:
\* floor(x * rate + 1/2)
RoundTimes(x, rate) ==
    IF x.nan THEN NaN ELSE Num((2 * x.num * rate + x.den) \div (2 * x.den))

\* the dollar sign is looked for before the won sign
parsePriceDollarFirst(priceString) ==
    IF priceString = "" THEN Num(0)
    ELSE IF priceString = FREE \/ Includes(ToLowerCase(priceString), "free") THEN Num(0)
    ELSE IF Includes(priceString, "$")
         THEN RoundTimes(parseFloat(RemoveChars(priceString, {"$", ",", " "})), 1320)
    ELSE IF Includes(priceString, WON)
         THEN parseInt(RemoveChars(priceString, {WON, ",", " "}))
    ELSE IF Includes(priceString, EURO)
         THEN RoundTimes(parseFloat(RemoveChars(priceString, {EURO, ",", " "})), 1430)
    ELSE IF Includes(priceString, POUND)
         THEN RoundTimes(parseFloat(RemoveChars(priceString, {POUND, ",", " "})), 1670)
    ELSE Num(0)

parsePrice(priceString) ==
    IF priceString = "" THEN Num(0)
    ELSE IF priceString = FREE \/ Includes(ToLowerCase(priceString), "free") THEN Num(0)
    ELSE IF Includes(priceString, WON)
         THEN parseInt(RemoveChars(priceString, {WON, ",", " "}))
    ELSE IF Includes(priceString, "$")
         THEN RoundTimes(parseFloat(RemoveChars(priceString, {"$", ",", " "})), 1320)
    ELSE IF Includes(priceString, EURO)
         THEN RoundTimes(parseFloat(RemoveChars(priceString, {EURO, ",", " "})), 1430)
    ELSE IF Includes(priceString, POUND)
         THEN RoundTimes(parseFloat(RemoveChars(priceString, {POUND, ",", " "})), 1670)
    ELSE Num(0)

\* the decimal digits of n >= 0
RECURSIVE DigitsOf(_)
DigitsOf(n) ==
    IF n < 10 THEN DigitChar(n) ELSE DigitsOf(n \div 10) \o DigitChar(n % 10)

\* Number.prototype.toLocaleString('ko-KR'): a comma before every group of
\* three digits
RECURSIVE Group3(_)
Group3(d) ==
    IF Len(d) <= 3 THEN d
    ELSE Group3(SubSeq(d, 1, Len(d) - 3)) \o "," \o SubSeq(d, Len(d) - 2, Len(d))

\* if (!cents || cents === 0) return FREE; Math.round(cents / 100) with the
\* won sign and grouping commas
formatPriceFromCents(cents) ==
    IF cents = 0 THEN FREE
    ELSE WON \o Group3(DigitsOf((cents + 50) \div 100))

(***************************************************************************)
(* searchSteamGame: the ordered list of search terms                       *)
(***************************************************************************)
\* the positions of the spaces of s
Spaces(s) == {i \in 1..Len(s) : CharAt(s, i) = " "}

\* s.split(' ').slice(0, -n).join(' '), n >= 1: s up to its n-th space from
\* the end, and the empty string when s has fewer than n spaces
DropLastWords(s, n) ==
    IF Cardinality(Spaces(s)) < n THEN ""
    ELSE SubSeq(s, 1, Least({i \in Spaces(s) : Cardinality({j \in Spaces(s) : j >= i}) = n}) - 1)

searchAttempts(gameName) ==
    << gameName,
       cleanGameName(gameName),
       ReplaceEnd(gameName, {<<S1, "PC", ".*">>, <<S1, "Mac", ".*">>, <<S1, "Linux", ".*">>}),
       ReplaceEnd(gameName, {<<S1, "DLC", ".*">>, <<S1, "Expansion", ".*">>}),
       ReplaceEnd(gameName, {<<S0, ":", S0, ".*">>}),
       ReplaceEnd(gameName, {<<S0, "-", S0, ".*">>}),
       DropLastWords(gameName, 1),
       DropLastWords(gameName, 2) >>

\* [...new Set(seq)]: the first occurrence of every element, in order
AddUnique(front, x) ==
    IF \E k \in 1..Len(front) : front[k] = x THEN front ELSE Append(front, x)

RECURSIVE Dedupe(_)
Dedupe(seq) ==
    IF Len(seq) = 0 THEN <<>>
    ELSE AddUnique(Dedupe(SubSeq(seq, 1, Len(seq) - 1)), seq[Len(seq)])

\* .filter(name => name && name.trim().length > 2)
RECURSIVE FilterAttempts(_)
FilterAttempts(seq) ==
    IF Len(seq) = 0 THEN <<>>
    ELSE (IF Head(seq) # "" /\ Len(Trim(Head(seq))) > 2 THEN <<Head(seq)>> ELSE <<>>)
         \o FilterAttempts(Tail(seq))

uniqueAttempts(gameName) == FilterAttempts(Dedupe(searchAttempts(gameName)))

\* uniqueAttempts of the cleaned names of the listed products, evaluated once
attemptLists ==
    [n \in {cleanNames[r.originalName] : r \in RawItems \cup WideItems} |-> uniqueAttempts(n)]

uniqueAttemptsOf(gameName) ==
    IF gameName \in DOMAIN attemptLists THEN attemptLists[gameName]
    ELSE uniqueAttempts(gameName)

(***************************************************************************)
(* The collaborators: the listing pages of source A and the catalog of     *)
(* source B.                                                               *)
(***************************************************************************)
\* the number of products of a listing page is at most MaxProducts
MaxProducts == 3

RECURSIVE SeqsUpTo(_, _)
SeqsUpTo(S, n) ==
    IF n = 0 THEN {<<>>}
    ELSE LET shorter == SeqsUpTo(S, n - 1)
         IN  shorter \cup {Append(q, x) : q \in {t \in shorter : Len(t) = n - 1}, x \in S}

\* the listings a page fetch can produce: no product twice
Pages ==
    {q \in SeqsUpTo(RawItems, MaxProducts) :
        \A a, b \in 1..Len(q) : a # b => q[a] # q[b]}

AppIds == {10, 20}

\* one item of response.data.items
Item(id, type) == [id |-> id, name |-> "App" \o DigitsOf(id), type |-> type]

\* what storesearch can answer for a term
ItemOptions == {<<>>} \cup {<<Item(id, "game")>> : id \in AppIds}

\* response.data[appId] of appdetails; price_overview is absent (<<>>) or
\* present (<<p>>)
Priced(initial, final, percent) ==
    [success |-> TRUE, name |-> "",
     price_overview |-> <<[initial |-> initial, final |-> final, discount_percent |-> percent]>>]

DetailOptions ==
    { [success |-> FALSE, name |-> "", price_overview |-> <<>>],
      [success |-> TRUE, name |-> "Exact", price_overview |-> <<>>],
      Priced(7900000, 7900000, 0),
      Priced(4000000, 2000000, 50) }

\* the values of minDifference a request carries
MinDifferences == {5000, 39000}

\* answers of storesearch with several items of various types
WideItemOptions ==
    { <<>>,
      <<Item(10, "game")>>,
      <<Item(10, "bundle"), Item(20, "dlc"), Item(30, "game")>>,
      <<Item(30, "bundle"), Item(20, "music")>> }

\* answers of appdetails, among them a price below one won
WideDetailOptions == DetailOptions \cup {Priced(30, 30, 0)}

\* minDifference is whatever number the request body holds
WideMinDifferences == {-50000, 0, 5000}

Urls == {"", "u1"}

(***************************************************************************)
(* NodeCache: an entry is absent once its time to live has passed          *)
(***************************************************************************)
Null == <<>>

\* new NodeCache({ stdTTL: 3600 }): the seconds an entry lives
stdTTL == 3600

EmptyCache == [k \in {} |-> Null]

\* cache.get(key): <<value>>, or Null for undefined
CacheGet(c, key) == IF key \in DOMAIN c THEN <<c[key]>> ELSE Null

\* cache.set(key, value)
CacheSet(c, key, value) ==
    [k \in DOMAIN c \cup {key} |-> IF k = key THEN value ELSE c[k]]

(***************************************************************************)
(* The state                                                               *)
(***************************************************************************)
VARIABLES
    cache,          \* the NodeCache instance: key -> value
    net,            \* the network calls in flight: [id, kind, arg]
    req,            \* the POST /api/compare request being served
    storesearch,    \* source B's catalog, as far as asked: term -> items
    appdetails,     \* source B's details, as far as asked: appid -> data
    faults,         \* how many more calls to source B may fail or time out
    crawls,         \* how many listing pages have been extracted (Date.now())
    history,        \* the requests answered so far, oldest first
    call,           \* the last call of a function outside a compare request:
                    \* [fn, arg, out], and in of what arg was written from
    ttl,            \* the seconds every entry of the cache has left to live
    puppeteer       \* the browser of the process: [browser, created, callers]

vars == <<cache, net, req, storesearch, appdetails, faults, crawls, history, call, ttl, puppeteer>>

\* the calls to source B that may fail in one behaviour
MaxFaults == 1

\* no function is being called outside a request
NoCall == [fn |-> "", arg |-> "", out |-> Null, of |-> Null]

\* the locals of the handler and of the functions it awaits, and, from calls
\* on, the record of what the request did
IdleRequest ==
    [ pc |-> "idle", op |-> "compare", url |-> "", minDifference |-> 0, response |-> Null,
      cdkeysGames |-> <<>>, idx |-> 0, comparisons |-> <<>>, notFoundGames |-> <<>>,
      gameName |-> "", attempts |-> <<>>, i |-> 0, gameInfo |-> Null,
      result |-> Null, steamPrice |-> Null, awaiting |-> 0, sleep |-> 0,
      calls |-> 0, issued |-> 0, started |-> 0, paused |-> 0,
      attemptLog |-> <<>>, searchDone |-> FALSE, quotes |-> <<>>, threw |-> {},
      pushed |-> <<>>,
      listingFailed |-> FALSE, cold |-> TRUE ]

\* where the handler is suspended: at an await, or not running
StablePcs == {"idle", "page", "search", "attemptPause", "details", "info", "pause", "done"}

\* res.json(body) / res.status(code).json(body)
Respond(m, body) == [m EXCEPT !.req.response = <<body>>, !.req.pc = "done"]

\* await of a network call: the call is issued and the handler suspends
Await(m, kind, arg, pc) ==
    [m EXCEPT !.net = @ \cup {[id |-> m.req.calls + 1, kind |-> kind, arg |-> arg]},
              !.req.calls = @ + 1,
              !.req.issued = @ + (IF kind = "page" THEN 0 ELSE 1),
              !.req.awaiting = m.req.calls + 1,
              !.req.pc = pc]

\* await new Promise(resolve => setTimeout(resolve, ms))
Sleep(m, ms, pc) == [m EXCEPT !.req.sleep = ms, !.req.pc = pc]

\* a call to source B threw while product idx was being processed
Threw(m, kind) == [m EXCEPT !.req.threw = @ \cup {[idx |-> m.req.idx, kind |-> kind]}]

(***************************************************************************)
(* fetchCDKeysGames                                                        *)
(***************************************************************************)
\* the page is fetched whatever the cache holds
fetchCDKeysGamesUncached(m) == Await(m, "page", m.req.url, "page")

fetchCDKeysGames(m) ==
    IF CacheGet(m.cache, "cdkeys_" \o m.req.url) # Null
    THEN [m EXCEPT !.req.cdkeysGames = CacheGet(m.cache, "cdkeys_" \o m.req.url)[1],
                   !.req.pc = "listed"]
    ELSE Await(m, "page", m.req.url, "page")

\* games.map(...): the name of every extracted item cleaned; the id is
\* `game_${Date.now()}_${index}`
processedGames(games, stamp) ==
    [k \in 1..Len(games) |->
        [originalName |-> games[k].originalName, price |-> games[k].price,
         url |-> games[k].url, id |-> <<stamp, k - 1>>,
         name |-> cleanNameOf(games[k].originalName)]]

\* cache.set(cacheKey, processedGames); return processedGames
listingStored(m, processed) ==
    [m EXCEPT !.cache = CacheSet(@, "cdkeys_" \o m.req.url, processed),
              !.req.cdkeysGames = processed,
              !.req.pc = "listed"]

\* the page has been extracted: the list is stored and returned
fetchCDKeysGamesDone(m, games, stamp) == listingStored(m, processedGames(games, stamp))

\* the page fetch threw: the list is empty all the same
fetchCDKeysGamesSwallowed(m) ==
    [m EXCEPT !.req.listingFailed = TRUE, !.req.cdkeysGames = <<>>, !.req.pc = "listed"]

\* the page fetch threw: rethrown to the handler, whose catch answers 500
fetchCDKeysGamesFailed(m) ==
    Respond([m EXCEPT !.req.listingFailed = TRUE],
            [status |-> 500, error |-> "compare failed", details |-> "listing"])

(***************************************************************************)
(* searchSteamGame                                                         *)
(***************************************************************************)
searchSteamGame(m) ==
    [m EXCEPT !.req.attempts = uniqueAttemptsOf(m.req.gameName),
              !.req.i = 1, !.req.attemptLog = <<>>, !.req.pc = "attempt"]

attemptName(m) == Trim(m.req.attempts[m.req.i])

\* one more line of the record of the attempts of the search
Logged(m, outcome) ==
    [m EXCEPT !.req.attemptLog = Append(@, [term |-> attemptName(m), outcome |-> outcome])]

\* axios.get(searchUrl, ...) without await: the loop goes on at once
searchRequestNotAwaited(m) ==
    [Await(m, "search", attemptName(m), "attempt") EXCEPT !.req.i = @ + 1]

\* await axios.get(searchUrl, ...)
searchRequest(m) == Await(m, "search", attemptName(m), "search")

\* the head of the for loop without the cache
attemptUncached(m) ==
    IF m.req.i > Len(m.req.attempts)
    THEN [m EXCEPT !.req.gameInfo = Null, !.req.pc = "searched"]
    ELSE searchRequest(m)

\* the head of the for loop: the cache is asked before the catalog
attempt(m) ==
    IF m.req.i > Len(m.req.attempts)
    THEN [m EXCEPT !.req.gameInfo = Null, !.req.pc = "searched"]
    ELSE IF CacheGet(m.cache, "steam_search_" \o attemptName(m)) # Null
    THEN [Logged(m, "cached") EXCEPT
              !.req.gameInfo = CacheGet(m.cache, "steam_search_" \o attemptName(m)),
              !.req.pc = "searched"]
    ELSE searchRequest(m)

\* items[0], whatever its type
firstItem(items) == items[1]

\* items.find(item => item.type === 'game' || item.type === 'dlc') || items[0]
bestMatch(items) ==
    IF \E k \in 1..Len(items) : items[k].type \in {"game", "dlc"}
    THEN items[Least({k \in 1..Len(items) : items[k].type \in {"game", "dlc"}})]
    ELSE items[1]

\* the attempt found nothing and the search gives up
attemptFailedGivesUp(m) ==
    [Logged(m, "empty") EXCEPT !.req.gameInfo = Null, !.req.pc = "searched"]

\* the attempt found nothing: the loop goes on after 500 ms, or at once
\* after the last attempt
attemptFailed(m) ==
    IF m.req.i < Len(m.req.attempts)
    THEN Sleep(Logged(m, "empty"), 500, "attemptPause")
    ELSE [Logged(m, "empty") EXCEPT !.req.i = @ + 1, !.req.pc = "attempt"]

\* the catch of the loop body: logged, next attempt without a pause
attemptThrew(m) ==
    [Threw(Logged(m, "error"), "search") EXCEPT !.req.i = @ + 1, !.req.pc = "attempt"]

\* cache.set(cacheKey, result); return result
searchStored(m, found) ==
    [Logged(m, "items") EXCEPT
         !.cache = CacheSet(@, "steam_search_" \o attemptName(m), found),
         !.req.gameInfo = <<found>>,
         !.req.pc = "searched"]

\* the result built from bestMatch; source stands for the text
\* `Steam API (${i+1}: "${attemptName}")`
searchResult(m, best) ==
    [appid |-> best.id, name |-> best.name, type |-> best.type,
     source |-> [stage |-> m.req.i, term |-> attemptName(m)]]

\* the response of storesearch has arrived
searchResponse(m, items) ==
    IF Len(items) > 0
    THEN searchStored(m, searchResult(m, bestMatch(items)))
    ELSE attemptFailed(m)

(***************************************************************************)
(* fetchSteamPriceByAppId and fetchSteamPrice                              *)
(***************************************************************************)
appId(m) == m.req.gameInfo[1].appid

fetchSteamPriceByAppId(m) ==
    IF CacheGet(m.cache, "steam_price_appid_" \o DigitsOf(appId(m))) # Null
    THEN [m EXCEPT !.req.result = CacheGet(m.cache, "steam_price_appid_" \o DigitsOf(appId(m))),
                   !.req.pc = "priced"]
    ELSE Await(m, "details", appId(m), "details")

\* the prices of a price_overview, and those of a game without one
pricesOf(priceOverview) ==
    IF priceOverview = Null
    THEN [original |-> FREE, final |-> FREE, discount |-> Null]
    ELSE [original |-> formatPriceFromCents(IF priceOverview[1].initial # 0
                                             THEN priceOverview[1].initial
                                             ELSE priceOverview[1].final),
          final |-> formatPriceFromCents(priceOverview[1].final),
          discount |-> IF priceOverview[1].discount_percent > 0
                       THEN <<"-" \o DigitsOf(priceOverview[1].discount_percent) \o "%">>
                       ELSE Null]

\* the quote built from response.data[appId].data
priceResult(m, appData) ==
    [ exactName |-> IF appData.name # "" THEN appData.name ELSE m.req.gameName,
      appid |-> appId(m),
      original |-> pricesOf(appData.price_overview).original,
      final |-> pricesOf(appData.price_overview).final,
      discount |-> pricesOf(appData.price_overview).discount,
      source |-> Null ]

\* cache.set(cacheKey, result); return result
quoteStored(m, quote) ==
    [m EXCEPT !.cache = CacheSet(@, "steam_price_appid_" \o DigitsOf(appId(m)), quote),
              !.req.result = <<quote>>, !.req.pc = "priced"]

\* the response of appdetails has arrived
detailsResponse(m, appData) ==
    IF appData.success
    THEN quoteStored(m, priceResult(m, appData))
    ELSE [m EXCEPT !.req.result = Null, !.req.pc = "priced"]

\* the failure of the call is not caught: it reaches the catch of the
\* handler, which answers 500
detailsThrewAborts(m) ==
    Respond(Threw(m, "details"), [status |-> 500, error |-> "compare failed", details |-> "details"])

\* the catch of fetchSteamPriceByAppId
detailsThrew(m) == [Threw(m, "details") EXCEPT !.req.result = Null, !.req.pc = "priced"]

\* the quote of any name is taken for the quote of this one
fetchSteamPriceAnyName(m) ==
    IF \E k \in DOMAIN m.cache : k \in {"steam_price_Doom", "steam_price_Doom: Eternal"}
    THEN [m EXCEPT !.req.steamPrice =
                       <<m.cache[CHOOSE k \in DOMAIN m.cache :
                                    k \in {"steam_price_Doom", "steam_price_Doom: Eternal"}]>>,
                   !.req.searchDone = FALSE, !.req.pc = "evaluate"]
    ELSE [m EXCEPT !.req.searchDone = FALSE, !.req.pc = "searchSteamGame"]

fetchSteamPrice(m) ==
    IF CacheGet(m.cache, "steam_price_" \o m.req.gameName) # Null
    THEN [m EXCEPT !.req.steamPrice = CacheGet(m.cache, "steam_price_" \o m.req.gameName),
                   !.req.searchDone = FALSE, !.req.pc = "evaluate"]
    ELSE [m EXCEPT !.req.searchDone = FALSE, !.req.pc = "searchSteamGame"]

\* fetchSteamPrice after searchSteamGame has returned
searched(m) ==
    IF m.req.gameInfo = Null
    THEN [m EXCEPT !.req.searchDone = TRUE, !.req.steamPrice = Null, !.req.pc = "evaluate"]
    ELSE [m EXCEPT !.req.searchDone = TRUE, !.req.pc = "fetchSteamPriceByAppId"]

\* result.source = gameInfo.source; cache.set(cacheKey, result); return result
priceStored(m, quote) ==
    [m EXCEPT !.cache = CacheSet(@, "steam_price_" \o m.req.gameName, quote),
              !.req.steamPrice = <<quote>>, !.req.pc = "evaluate"]

\* fetchSteamPrice after fetchSteamPriceByAppId has returned
priced(m) ==
    IF m.req.result # Null
    THEN priceStored(m, [m.req.result[1] EXCEPT !.source = <<m.req.gameInfo[1].source>>])
    ELSE [m EXCEPT !.req.steamPrice = Null, !.req.pc = "evaluate"]

(***************************************************************************)
(* getSteamGameInfo, called by the export for every game                   *)
(***************************************************************************)
\* the function up to its first await
getSteamGameInfo(m, gameName) ==
    [m EXCEPT !.req = [IdleRequest EXCEPT !.op = "getSteamGameInfo",
                                          !.gameName = gameName,
                                          !.pc = "searchSteamGame"]]

\* what is returned when the details are not to be had
noGameInfo(m, developer) ==
    [headerImage |-> "", screenshots |-> <<>>, developer |-> developer,
     title |-> m.req.gameName]

\* after searchSteamGame has returned: no match, or the request for the
\* details of the match
gameInfoSearched(m) ==
    IF m.req.gameInfo = Null
    THEN Respond(m, noGameInfo(m, ""))
    ELSE Await(m, "info", appId(m), "info")

\* the result built from response.data[appid].data
gameInfoResult(m, gameData) ==
    [ title |-> IF gameData.name # "" THEN gameData.name ELSE m.req.gameName,
      headerImage |-> gameData.header_image,
      developer |-> IF gameData.developers # <<>> /\ gameData.developers[1] # ""
                    THEN gameData.developers[1] ELSE "Unknown Developer",
      screenshots |-> SubSeq(gameData.screenshots, 1,
                             IF Len(gameData.screenshots) < 4
                             THEN Len(gameData.screenshots) ELSE 4) ]

\* the request for the details has returned, or thrown past the function
gameInfoResponseUncaught(m, answer) ==
    IF ~answer.ok
    THEN Respond(Threw(m, "info"), [status |-> 500, error |-> "export failed"])
    ELSE IF answer.data.success THEN Respond(m, gameInfoResult(m, answer.data))
    ELSE Respond(m, noGameInfo(m, "Unknown Developer"))

\* the request for the details has returned or thrown (the catch)
gameInfoResponse(m, answer) ==
    IF ~answer.ok THEN Respond(Threw(m, "info"), noGameInfo(m, "Unknown Developer"))
    ELSE IF answer.data.success THEN Respond(m, gameInfoResult(m, answer.data))
    ELSE Respond(m, noGameInfo(m, "Unknown Developer"))

(***************************************************************************)
(* POST /api/compare                                                       *)
(***************************************************************************)
game(m) == m.req.cdkeysGames[m.req.idx]

\* const savings = steamOriginalPrice - cdkeysPrice
savingsOf(steamOriginalPrice, cdkeysPrice) == JSSub(steamOriginalPrice, cdkeysPrice)

\* if (savings > minDifference)
passesThresholdStrictly(savings, minDifference) ==
    JSGe(savings, Num(minDifference)) /\ savings.v # minDifference

\* if (savings >= minDifference)
passesThreshold(savings, minDifference) == JSGe(savings, Num(minDifference))

\* if (steamPrice)
comparableWhenFree(steamPrice) == steamPrice # Null

\* if (steamPrice && steamPrice.final !== FREE)
comparable(steamPrice) == steamPrice # Null /\ steamPrice[1].final # FREE

\* the object literal gameData
gameDataOf(g, quote, cdkeysPrice, steamOriginalPrice, steamFinalPrice, savings) ==
    [ id |-> g.id, name |-> g.name, originalName |-> g.originalName,
      exactName |-> IF quote.exactName # "" THEN quote.exactName ELSE g.name,
      cdkeysPrice |-> cdkeysPrice, cdkeysUrl |-> g.url,
      steamOriginalPrice |-> steamOriginalPrice,
      steamFinalPrice |-> steamFinalPrice,
      steamDiscount |-> quote.discount,
      savings |-> savings,
      savingsPercent |-> JSPercent(savings, steamOriginalPrice),
      steamAppId |-> quote.appid, source |-> quote.source, steamFound |-> TRUE ]

\* the savings are taken from the final price
pricedGameFromFinal(g, quote, cdkeysPrice, steamOriginalPrice, steamFinalPrice) ==
    gameDataOf(g, quote, cdkeysPrice, steamOriginalPrice, steamFinalPrice,
               savingsOf(steamFinalPrice, cdkeysPrice))

\* the three prices parsed, and the savings
pricedGame(g, quote, cdkeysPrice, steamOriginalPrice, steamFinalPrice) ==
    gameDataOf(g, quote, cdkeysPrice, steamOriginalPrice, steamFinalPrice,
               savingsOf(steamOriginalPrice, cdkeysPrice))

gameData(g, quote) ==
    pricedGame(g, quote, parsePrice(g.price), parsePrice(quote.original),
               parsePrice(quote.final))

\* { ...game, steamFound: false, reason }
notFoundGame(g) ==
    [ id |-> g.id, name |-> g.name, originalName |-> g.originalName,
      price |-> g.price, url |-> g.url, steamFound |-> FALSE,
      reason |-> "no information" ]

\* the product is done and the next one follows at once
pauseSkipped(m) ==
    [m EXCEPT !.req.quotes = Append(@, m.req.steamPrice),
              !.req.idx = @ + 1, !.req.pc = "loop"]

\* await new Promise(resolve => setTimeout(resolve, 1000)), which ends the
\* body of the loop whatever branch was taken
pause(m) == Sleep([m EXCEPT !.req.quotes = Append(@, m.req.steamPrice)], 1000, "pause")

\* an item below the threshold is pushed to notFoundGames
pushOrNotFound(m, data) ==
    IF passesThreshold(data.savings, m.req.minDifference)
    THEN pause([m EXCEPT !.req.comparisons = Append(@, data)])
    ELSE pause([m EXCEPT !.req.notFoundGames = Append(@, notFoundGame(game(m)))])

\* if (savings >= minDifference) comparisons.push(gameData)
pushIfSaving(m, data) ==
    IF passesThreshold(data.savings, m.req.minDifference)
    THEN pause([m EXCEPT !.req.comparisons = Append(@, data)])
    ELSE pause(m)

\* the timer is inside the branch of a quoted product only
evaluatePausesWhenQuoted(m) ==
    IF comparable(m.req.steamPrice)
    THEN pushIfSaving(m, gameData(game(m), m.req.steamPrice[1]))
    ELSE pauseSkipped([m EXCEPT !.req.notFoundGames = Append(@, notFoundGame(game(m)))])

\* the body of the for loop once fetchSteamPrice has returned, up to the
\* 1000 ms timer (nothing in the try block throws: fetchSteamPrice returns
\* null on every failure and parsePrice is given strings, so the catch of
\* the loop body is never entered)
evaluate(m) ==
    IF comparable(m.req.steamPrice)
    THEN pushIfSaving(m, gameData(game(m), m.req.steamPrice[1]))
    ELSE pause([m EXCEPT !.req.notFoundGames = Append(@, notFoundGame(game(m)))])

\* x goes behind every element of the sorted list front that the comparator
\* (a, b) => b.savings - a.savings does not put after it
insertBySavings(front, x) ==
    SubSeq(front, 1, Greatest({k \in 0..Len(front) :
                                  \A j \in 1..k : front[j].savings.v >= x.savings.v}))
    \o <<x>> \o
    SubSeq(front, Greatest({k \in 0..Len(front) :
                               \A j \in 1..k : front[j].savings.v >= x.savings.v}) + 1,
           Len(front))

\* the list as it is
unsorted(list) == list

\* comparisons.sort((a, b) => b.savings - a.savings) (the sort is stable)
RECURSIVE sortBySavings(_)
sortBySavings(list) ==
    IF Len(list) <= 1 THEN list
    ELSE insertBySavings(sortBySavings(SubSeq(list, 1, Len(list) - 1)), list[Len(list)])

\* the list has been obtained
listed(m) ==
    IF Len(m.req.cdkeysGames) = 0
    THEN Respond(m, [status |-> 200, success |-> TRUE, games |-> <<>>,
                     message |-> "no games"])
    ELSE [m EXCEPT !.req.comparisons = <<>>, !.req.notFoundGames = <<>>,
                   !.req.idx = 1, !.req.pc = "loop"]

\* totalGames counts the products of the two lists
resultsTotalOfLists(m, games) ==
    Respond([m EXCEPT !.req.pushed = m.req.comparisons, !.req.comparisons = games],
            [status |-> 200, success |-> TRUE,
             totalGames |-> Len(games) + Len(m.req.notFoundGames),
             discountedGames |-> Len(games),
             notFoundGames |-> Len(m.req.notFoundGames),
             games |-> games,
             notFound |-> m.req.notFoundGames])

\* res.json({ success, totalGames, discountedGames, notFoundGames, games,
\* notFound })
results(m, games) ==
    Respond([m EXCEPT !.req.pushed = m.req.comparisons, !.req.comparisons = games],
            [status |-> 200, success |-> TRUE,
             totalGames |-> Len(m.req.cdkeysGames),
             discountedGames |-> Len(games),
             notFoundGames |-> Len(m.req.notFoundGames),
             games |-> games,
             notFound |-> m.req.notFoundGames])

\* the head of for (const game of cdkeysGames), and what follows the loop
loop(m) ==
    IF m.req.idx <= Len(m.req.cdkeysGames)
    THEN [m EXCEPT !.req.gameName = game(m).name, !.req.started = @ + 1,
                   !.req.pc = "fetchSteamPrice"]
    ELSE results(m, sortBySavings(m.req.comparisons))

\* the loop goes on with the product after the next one
pausedSkipsOne(m) ==
    [m EXCEPT !.req.paused = @ + 1, !.req.sleep = 0, !.req.idx = @ + 2, !.req.pc = "loop"]

\* the 1000 ms timer of the loop body has fired
paused(m) ==
    [m EXCEPT !.req.paused = @ + 1, !.req.sleep = 0, !.req.idx = @ + 1, !.req.pc = "loop"]

\* the 500 ms timer between two attempts has fired
attemptPaused(m) == [m EXCEPT !.req.sleep = 0, !.req.i = @ + 1, !.req.pc = "attempt"]

\* the handler up to its first await
compare(m, url, minDifference) ==
    IF url = ""
    THEN Respond([m EXCEPT !.req = [IdleRequest EXCEPT !.url = url,
                                       !.minDifference = minDifference,
                                       !.cold = (m.cache = EmptyCache)]],
                 [status |-> 400, error |-> "url required"])
    ELSE [m EXCEPT !.req = [IdleRequest EXCEPT !.url = url,
                               !.minDifference = minDifference,
                               !.cold = (m.cache = EmptyCache),
                               !.pc = "fetchCDKeysGames"]]

(***************************************************************************)
(* One turn of the event loop: the code runs from one await to the next.   *)
(***************************************************************************)
Step(m) ==
    CASE m.req.pc = "fetchCDKeysGames" -> fetchCDKeysGames(m)
      [] m.req.pc = "listed" -> listed(m)
      [] m.req.pc = "loop" -> loop(m)
      [] m.req.pc = "fetchSteamPrice" -> fetchSteamPrice(m)
      [] m.req.pc = "searchSteamGame" -> searchSteamGame(m)
      [] m.req.pc = "attempt" -> attempt(m)
      [] m.req.pc = "searched" /\ m.req.op = "compare" -> searched(m)
      [] m.req.pc = "searched" /\ m.req.op = "getSteamGameInfo" -> gameInfoSearched(m)
      [] m.req.pc = "fetchSteamPriceByAppId" -> fetchSteamPriceByAppId(m)
      [] m.req.pc = "priced" -> priced(m)
      [] m.req.pc = "evaluate" -> evaluate(m)

RECURSIVE Run(_)
Run(m) == IF m.req.pc \in StablePcs THEN m ELSE Run(Step(m))

Machine == [cache |-> cache, net |-> net, req |-> req]

\* the variables after a turn that ends in m; an entry set during the turn
\* (set follows a miss, so the key was absent) has stdTTL seconds to live
Becomes(m) ==
    /\ cache' = m.cache
    /\ net' = m.net
    /\ req' = m.req
    /\ ttl' = [k \in DOMAIN m.cache |-> IF k \in DOMAIN cache THEN ttl[k] ELSE stdTTL]
    /\ UNCHANGED puppeteer

\* the call a response belongs to leaves the network
Received(c) == [Machine EXCEPT !.net = @ \ {c}]

\* the handler resumes only when it is suspended on that call
Resumes(c) == req.awaiting = c.id /\ req.pc = c.kind

\* what the handler does with the outcome of the call it awaits
Resumed(c, answer) ==
    CASE c.kind = "page" /\ answer.ok ->
             fetchCDKeysGamesDone(Received(c), answer.games, crawls + 1)
      [] c.kind = "page" /\ ~answer.ok -> fetchCDKeysGamesFailed(Received(c))
      [] c.kind = "search" /\ answer.ok -> searchResponse(Received(c), answer.items)
      [] c.kind = "search" /\ ~answer.ok -> attemptThrew(Received(c))
      [] c.kind = "details" /\ answer.ok -> detailsResponse(Received(c), answer.data)
      [] c.kind = "details" /\ ~answer.ok -> detailsThrew(Received(c))
      [] c.kind = "info" -> gameInfoResponse(Received(c), answer)

\* the outcome of call c reaches the process
Deliver(c, answer) ==
    Becomes(IF Resumes(c) THEN Run(Resumed(c, answer)) ELSE Received(c))

\* one more entry of the memory of what source B has answered
Answered(known, arg, answer) ==
    [k \in DOMAIN known \cup {arg} |-> IF k = arg THEN answer ELSE known[k]]

\* what is kept of an answered request
Summary(r) ==
    [ url |-> r.url, minDifference |-> r.minDifference, cold |-> r.cold,
      cdkeysGames |-> r.cdkeysGames, quotes |-> r.quotes, threw |-> r.threw,
      listingFailed |-> r.listingFailed, response |-> r.response,
      op |-> r.op, gameName |-> r.gameName, gameInfo |-> r.gameInfo,
      attemptLog |-> r.attemptLog, issued |-> r.issued ]

(***************************************************************************)
(* Actions                                                                 *)
(***************************************************************************)
Init ==
    /\ cache = EmptyCache
    /\ net = {}
    /\ req = IdleRequest
    /\ storesearch = [t \in {} |-> <<>>]
    /\ appdetails = [a \in {} |-> <<>>]
    /\ faults = MaxFaults
    /\ crawls = 0
    /\ history = <<>>
    /\ call = NoCall
    /\ ttl = [k \in {} |-> 0]
    /\ puppeteer = [browser |-> 0, created |-> {}, callers |-> [c \in {} |-> 0]]

\* POST /api/compare arrives with one of the given values of minDifference
CompareRequestWith(thresholds) ==
    /\ req.pc = "idle"
    /\ \E url \in Urls, minDifference \in thresholds :
           Becomes(Run(compare(Machine, url, minDifference)))
    /\ UNCHANGED <<storesearch, appdetails, faults, crawls, history, call>>

CompareRequest == CompareRequestWith(MinDifferences)

\* the page is extracted and shows one of the given listings
PageExtractedFrom(pages) ==
    \E c \in net :
        /\ c.kind = "page"
        /\ \E games \in pages : Deliver(c, [ok |-> TRUE, games |-> games])
        /\ crawls' = crawls + 1
        /\ UNCHANGED <<storesearch, appdetails, faults, history, call>>

PageExtracted == PageExtractedFrom(Pages)

\* launch / goto / waitForSelector throws
PageFailed ==
    \E c \in net :
        /\ c.kind = "page"
        /\ Deliver(c, [ok |-> FALSE])
        /\ UNCHANGED <<storesearch, appdetails, faults, crawls, history, call>>

\* storesearch answers with the catalog's items for the term, one of the
\* given answers when the term is asked for the first time
SearchResponseFrom(options) ==
    \E c \in net :
        /\ c.kind = "search"
        /\ \E items \in (IF c.arg \in DOMAIN storesearch
                         THEN {storesearch[c.arg]} ELSE options) :
              /\ Deliver(c, [ok |-> TRUE, items |-> items])
              /\ storesearch' = Answered(storesearch, c.arg, items)
        /\ UNCHANGED <<appdetails, faults, crawls, history, call>>

SearchResponse == SearchResponseFrom(ItemOptions)

\* appdetails answers with the catalog's data for the id, one of the given
\* answers when the id is asked for the first time
DetailsResponseFrom(options) ==
    \E c \in net :
        /\ c.kind = "details"
        /\ \E data \in (IF c.arg \in DOMAIN appdetails
                        THEN {appdetails[c.arg]} ELSE options) :
              /\ Deliver(c, [ok |-> TRUE, data |-> data])
              /\ appdetails' = Answered(appdetails, c.arg, data)
        /\ UNCHANGED <<storesearch, faults, crawls, history, call>>

DetailsResponse == DetailsResponseFrom(DetailOptions)

\* a call to source B fails or times out
CallFailed ==
    \E c \in net :
        /\ c.kind \in {"search", "details", "info"}
        /\ faults > 0
        /\ Deliver(c, [ok |-> FALSE])
        /\ faults' = faults - 1
        /\ UNCHANGED <<storesearch, appdetails, crawls, history, call>>

\* the 500 ms timer fires
AttemptPauseDone ==
    /\ req.pc = "attemptPause"
    /\ Becomes(Run(attemptPaused(Machine)))
    /\ UNCHANGED <<storesearch, appdetails, faults, crawls, history, call>>

\* the 1000 ms timer fires
PauseDone ==
    /\ req.pc = "pause"
    /\ Becomes(Run(paused(Machine)))
    /\ UNCHANGED <<storesearch, appdetails, faults, crawls, history, call>>

Next ==
    \/ CompareRequest
    \/ PageExtracted
    \/ PageFailed
    \/ SearchResponse
    \/ DetailsResponse
    \/ CallFailed
    \/ AttemptPauseDone
    \/ PauseDone

Spec == Init /\ [][Next]_vars

(***************************************************************************)
(* Two requests in a row: the process is restarted after the first one,    *)
(* the client sends the same request again, and the listing has lost one   *)
(* product in between.                                                     *)
(***************************************************************************)
\* the number of compare requests of one behaviour
MaxRequests == 2

\* what page.evaluate extracted for a listed product
rawOf(g) == [originalName |-> g.originalName, price |-> g.price, url |-> g.url]

rawList(games) == [k \in 1..Len(games) |-> rawOf(games[k])]

\* the sequence without its k-th element
Without(seq, k) == SubSeq(seq, 1, k - 1) \o SubSeq(seq, k + 1, Len(seq))

\* no call to source B fails
InitPair ==
    /\ cache = EmptyCache
    /\ net = {}
    /\ req = IdleRequest
    /\ storesearch = [t \in {} |-> <<>>]
    /\ appdetails = [a \in {} |-> <<>>]
    /\ faults = 0
    /\ crawls = 0
    /\ history = <<>>
    /\ call = NoCall
    /\ ttl = [k \in {} |-> 0]
    /\ puppeteer = [browser |-> 0, created |-> {}, callers |-> [c \in {} |-> 0]]

\* the response has been sent and the process is started anew: the module
\* creates its NodeCache again
Restart ==
    /\ req.pc = "done"
    /\ Len(history) < MaxRequests - 1
    /\ history' = Append(history, Summary(req))
    /\ req' = IdleRequest
    /\ cache' = EmptyCache
    /\ ttl' = [k \in {} |-> 0]
    /\ puppeteer' = [browser |-> 0, created |-> {}, callers |-> [c \in {} |-> 0]]
    /\ UNCHANGED <<net, storesearch, appdetails, faults, crawls, call>>

\* the first request
FirstCompare == history = <<>> /\ CompareRequest

\* the request of the first compare is sent again
CompareAgain ==
    /\ req.pc = "idle"
    /\ history # <<>>
    /\ Becomes(Run(compare(Machine, history[1].url, history[1].minDifference)))
    /\ UNCHANGED <<storesearch, appdetails, faults, crawls, history, call>>

\* the page of the first request
FirstPageExtracted == history = <<>> /\ PageExtracted

\* the page of a later request: that of the first one less one product
PageShrunk ==
    \E c \in net :
        /\ c.kind = "page"
        /\ history # <<>>
        /\ \E k \in 1..Len(history[1].cdkeysGames) :
               Deliver(c, [ok |-> TRUE,
                           games |-> Without(rawList(history[1].cdkeysGames), k)])
        /\ crawls' = crawls + 1
        /\ UNCHANGED <<storesearch, appdetails, faults, history, call>>

NextPair ==
    \/ FirstCompare
    \/ CompareAgain
    \/ FirstPageExtracted
    \/ PageShrunk
    \/ PageFailed
    \/ SearchResponse
    \/ DetailsResponse
    \/ AttemptPauseDone
    \/ PauseDone
    \/ Restart

SpecPair == InitPair /\ [][NextPair]_vars

(***************************************************************************)
(* Two requests in a row served by the same process: the cache keeps what  *)
(* the first one stored, unless DELETE /api/cache empties it or the time   *)
(* to live of an entry passes.  No call to source B fails.                 *)
(***************************************************************************)
\* the response has been sent; the process goes on running
Served ==
    /\ req.pc = "done"
    /\ history = <<>>
    /\ history' = <<Summary(req)>>
    /\ req' = IdleRequest
    /\ UNCHANGED <<cache, net, storesearch, appdetails, faults, crawls, call, ttl, puppeteer>>

\* DELETE /api/cache that drops the quotes and matches but not the listings
CacheFlushKeepsListings ==
    /\ cache' = [k \in {x \in DOMAIN cache : SubSeq(x, 1, 6) # "steam_"} |-> cache[k]]
    /\ ttl' = [k \in {x \in DOMAIN cache : SubSeq(x, 1, 6) # "steam_"} |-> ttl[k]]
    /\ UNCHANGED puppeteer
    /\ call' = [fn |-> "flushAll", arg |-> "", out |-> Null, of |-> Null]
    /\ UNCHANGED <<net, req, storesearch, appdetails, faults, crawls, history>>

\* DELETE /api/cache: cache.flushAll(), at any turn of the event loop
CacheFlush ==
    /\ cache' = EmptyCache
    /\ ttl' = [k \in {} |-> 0]
    /\ UNCHANGED puppeteer
    /\ call' = [fn |-> "flushAll", arg |-> "", out |-> Null, of |-> Null]
    /\ UNCHANGED <<net, req, storesearch, appdetails, faults, crawls, history>>

\* half of stdTTL passes: an entry is gone once Date.now() is past its
\* expiry (data.t < Date.now()), and still there at the expiry itself
TimePasses ==
    /\ cache # EmptyCache
    /\ LET left == {k \in DOMAIN cache : ttl[k] * 2 >= stdTTL}
       IN  /\ cache' = [k \in left |-> cache[k]]
           /\ ttl' = [k \in left |-> ttl[k] - stdTTL \div 2]
           /\ UNCHANGED puppeteer
    /\ UNCHANGED <<net, req, storesearch, appdetails, faults, crawls, history, call>>

SpecCache ==
    InitPair /\ [][
    \/ CompareRequest
    \/ PageExtractedFrom({q \in Pages : /\ Len(q) <= 2
                                         /\ \A k \in 1..Len(q) :
                                               q[k].originalName \in {"Doom: Eternal", "Doom"}})
    \/ PageFailed
    \/ SearchResponseFrom({<<>>, <<Item(10, "game")>>})
    \/ DetailsResponse
    \/ AttemptPauseDone
    \/ PauseDone
    \/ Served
    \/ CacheFlush
    \/ TimePasses ]_vars

(***************************************************************************)
(* Two calls of getSteamGameInfo in a row, as the export makes them.       *)
(***************************************************************************)
\* getSteamGameInfo(game.name) is called
InfoRequest ==
    /\ req.pc = "idle"
    /\ \E gameName \in {"Doom: Eternal", "Doom"} :
           Becomes(Run(getSteamGameInfo(Machine, gameName)))
    /\ UNCHANGED <<storesearch, appdetails, faults, crawls, history, call>>

\* appdetails answers the request for the details of an id, the same way
\* every time: no success, all the data, or data without name, image,
\* developers and screenshots
InfoResponse ==
    \E c \in net :
        /\ c.kind = "info"
        /\ \E data \in (IF c.arg \in DOMAIN appdetails THEN {appdetails[c.arg]}
                        ELSE { [success |-> FALSE],
                               [success |-> TRUE, name |-> "Doom", header_image |-> "h.jpg",
                                developers |-> <<"id Software", "Bethesda">>,
                                screenshots |-> <<"s1", "s2", "s3", "s4", "s5">>],
                               [success |-> TRUE, name |-> "", header_image |-> "",
                                developers |-> <<>>, screenshots |-> <<>>] }) :
               /\ Deliver(c, [ok |-> TRUE, data |-> data])
               /\ appdetails' = Answered(appdetails, c.arg, data)
        /\ UNCHANGED <<storesearch, faults, crawls, history, call>>

SpecInfo ==
    Init /\ [][ \/ InfoRequest
                \/ SearchResponseFrom({<<>>, <<Item(10, "game")>>})
                \/ InfoResponse
                \/ CallFailed
                \/ AttemptPauseDone
                \/ Served
                \/ CacheFlush
                \/ TimePasses ]_vars

(***************************************************************************)
(* initBrowser: the browser of the process, asked for by the callback of   *)
(* app.listen and by every fetchCDKeysGames that misses the cache.         *)
(* puppeteer.browser is the module's `let browser` (0 for null, else the    *)
(* number of the launch that made it), puppeteer.created the browsers that *)
(* puppeteer.launch has made, puppeteer.callers the calls of initBrowser.  *)
(***************************************************************************)
\* initBrowser up to its await: if (!browser) puppeteer.launch(...) is
\* called and the caller waits for it, else the browser is returned
initBrowser(c) ==
    /\ c \notin DOMAIN puppeteer.callers
    /\ LET launches == {d \in DOMAIN puppeteer.callers : puppeteer.callers[d].launch # 0}
           entered == IF puppeteer.browser = 0
                      THEN [pc |-> "launch", launch |-> Cardinality(launches) + 1, got |-> 0]
                      ELSE [pc |-> "returned", launch |-> 0, got |-> puppeteer.browser]
       IN  puppeteer' = [puppeteer EXCEPT !.callers = Answered(@, c, entered)]
    /\ UNCHANGED <<cache, net, req, storesearch, appdetails, faults, crawls, history, call, ttl>>

\* the launch of a caller resolves: browser = <the new instance>; return browser
launchResolved(c) ==
    /\ c \in DOMAIN puppeteer.callers
    /\ puppeteer.callers[c].pc = "launch"
    /\ LET made == puppeteer.callers[c].launch
       IN  puppeteer' = [browser |-> made,
                         created |-> puppeteer.created \cup {made},
                         callers |-> [puppeteer.callers EXCEPT ![c].pc = "returned",
                                                               ![c].got = made]]
    /\ UNCHANGED <<cache, net, req, storesearch, appdetails, faults, crawls, history, call, ttl>>

\* the launch of a caller fails or passes its timeout of 60 s: the await
\* throws before the assignment
launchFailed(c) ==
    /\ c \in DOMAIN puppeteer.callers
    /\ puppeteer.callers[c].pc = "launch"
    /\ puppeteer' = [puppeteer EXCEPT !.callers[c].pc = "threw"]
    /\ UNCHANGED <<cache, net, req, storesearch, appdetails, faults, crawls, history, call, ttl>>

\* the callback of app.listen and three requests whose listing is not cached
SpecBrowser ==
    Init /\ [][\E c \in {"listen", "compare1", "compare2", "compare3"} :
                  \/ initBrowser(c)
                  \/ launchResolved(c)
                  \/ launchFailed(c) ]_vars

(***************************************************************************)
(* One listed product, over a wider range of titles, listed prices,        *)
(* answers of source B and thresholds.                                     *)
(***************************************************************************)
NextWide ==
    \/ CompareRequestWith(WideMinDifferences)
    \/ PageExtractedFrom({<<r>> : r \in WideItems})
    \/ PageFailed
    \/ SearchResponseFrom(WideItemOptions)
    \/ DetailsResponseFrom(WideDetailOptions)
    \/ CallFailed
    \/ AttemptPauseDone
    \/ PauseDone

SpecWide == Init /\ [][NextWide]_vars

(***************************************************************************)
(* Calls of parsePrice and of cleanGameName (POST /api/test-clean-name)    *)
(* on price texts and titles written in various ways.                      *)
(***************************************************************************)
\* the amount num / 100 in digits: the integer part with or without
\* grouping commas, and two decimals unless the amount is whole
Written(num, grouped) ==
    (IF grouped THEN Group3(DigitsOf(num \div 100)) ELSE DigitsOf(num \div 100))
    \o (IF num % 100 = 0 THEN ""
        ELSE "." \o DigitChar((num % 100) \div 10) \o DigitChar(num % 10))

\* the symbol before or after the amount, with or without white space
Laid(symbol, amount, layout) ==
    CASE layout = 1 -> symbol \o amount
      [] layout = 2 -> symbol \o " " \o amount
      [] layout = 3 -> amount \o symbol
      [] layout = 4 -> " " \o amount \o " " \o symbol

\* price texts in won, and what they were written from: a whole amount
\* (num in hundredths), alone or followed by a word or another symbol
WonTexts ==
    { [symbol |-> WON, num |-> n, tail |-> t,
       text |-> Laid(WON, Written(n, g), l) \o t] :
          n \in {0, 500, 100000, 1234500, 3958700, 100000000},
          g \in BOOLEAN, l \in 1..4, t \in {"", " free", " $"} }

\* price texts in dollars, euros and pounds: an amount with two decimals
\* (num in hundredths)
ForeignTexts ==
    { [symbol |-> c, num |-> n, tail |-> "",
       text |-> Laid(c, Written(n, g), l)] :
          c \in {"$", EURO, POUND}, n \in {0, 99, 100, 2999, 123456},
          g \in BOOLEAN, l \in 1..4 }

\* parsePrice(priceString) is called
ParsePriceCall ==
    /\ \E t \in WonTexts \cup ForeignTexts :
           call' = [fn |-> "parsePrice", arg |-> t.text, out |-> parsePrice(t.text),
                    of |-> <<t>>]
    /\ UNCHANGED <<cache, net, req, storesearch, appdetails, faults, crawls, history, ttl, puppeteer>>

\* POST /api/test-clean-name with a title
CleanNameCall ==
    /\ \E gameName \in Titles :
           call' = [fn |-> "cleanGameName", arg |-> gameName,
                    out |-> cleanNameOf(gameName), of |-> Null]
    /\ UNCHANGED <<cache, net, req, storesearch, appdetails, faults, crawls, history, ttl, puppeteer>>

\* POST /api/test-clean-name with the name the last call returned
CleanAgainCall ==
    /\ call.fn = "cleanGameName"
    /\ call.of = Null
    /\ call' = [fn |-> "cleanGameName", arg |-> call.out,
                out |-> cleanNameOf(call.out), of |-> <<call.arg>>]
    /\ UNCHANGED <<cache, net, req, storesearch, appdetails, faults, crawls, history, ttl, puppeteer>>

NextCalls ==
    \/ ParsePriceCall
    \/ CleanNameCall
    \/ CleanAgainCall

SpecCalls == Init /\ [][NextCalls]_vars

(***************************************************************************)
(* Properties of POST /api/compare                                         *)
(***************************************************************************)
Done == req.pc = "done"

Reply == req.response[1]

\* the request has been answered with the outcome of a non-empty listing
Compared == Done /\ Reply.status = 200 /\ Len(req.cdkeysGames) > 0

Ids(list) == {list[k].id : k \in 1..Len(list)}

Range(list) == {list[k] : k \in 1..Len(list)}

Count(list, x) == Cardinality({k \in 1..Len(list) : list[k] = x})

\* product j was resolved in source B with a quote that is not free
Quoted(j) == req.quotes[j] # Null /\ req.quotes[j][1].final # FREE

\* the listed price of product j and the original price of its quote, in won
ListedPrice(j) == parsePrice(req.cdkeysGames[j].price)

OriginalPrice(j) == parsePrice(req.quotes[j][1].original)

\* the savings of product j reach the threshold of the request
Saves(j) ==
    /\ ~ListedPrice(j).nan
    /\ ~OriginalPrice(j).nan
    /\ OriginalPrice(j).v - ListedPrice(j).v >= req.minDifference

\* C1: every result returned by compare carries the listed price of its
\* product and the original price of its quote, both in won, and its
\* savings is the original price minus the listed price.
SavingsIsOriginalMinusListed ==
    Compared =>
        \A k \in 1..Len(Reply.games) :
            \E j \in 1..Len(req.cdkeysGames) :
                /\ Reply.games[k].id = req.cdkeysGames[j].id
                /\ req.quotes[j] # Null
                /\ Reply.games[k].cdkeysPrice = ListedPrice(j)
                /\ Reply.games[k].steamOriginalPrice = OriginalPrice(j)
                /\ ~Reply.games[k].savings.nan
                /\ Reply.games[k].savings.v =
                       Reply.games[k].steamOriginalPrice.v - Reply.games[k].cdkeysPrice.v

\* a result with listed price 39587 ($29.99 at 1320) and original price
\* 79000: savings 39413
SavingsExample ==
    /\ Compared
    /\ \E k \in 1..Len(Reply.games) :
           /\ Reply.games[k].cdkeysPrice = Num(39587)
           /\ Reply.games[k].steamOriginalPrice = Num(79000)
           /\ Reply.games[k].savings = Num(39413)

\* C2: once compare has completed, a listed product is among the results
\* exactly when source B resolved it with a quote that is not free and its
\* savings are at least minDifference; no result has savings below
\* minDifference.
InResultsIffSaving ==
    Compared =>
        /\ \A j \in 1..Len(req.cdkeysGames) :
               (req.cdkeysGames[j].id \in Ids(Reply.games)) <=> (Quoted(j) /\ Saves(j))
        /\ \A k \in 1..Len(Reply.games) :
               Reply.games[k].savings.v >= req.minDifference

\* one product with savings equal to minDifference is a result, and another
\* one, quoted with smaller savings, is not
SavingAtThresholdIsResult ==
    /\ Compared
    /\ \E k \in 1..Len(Reply.games) : Reply.games[k].savings = Num(req.minDifference)
    /\ \E j \in 1..Len(req.cdkeysGames) :
           Quoted(j) /\ ~Saves(j) /\ req.cdkeysGames[j].id \notin Ids(Reply.games)

\* C3: the results are in descending order of savings and are a
\* permutation of the items that passed the threshold, in whatever order
\* the loop pushed them.
ResultsSortedBySavings ==
    Compared =>
        /\ \A k \in 1..(Len(Reply.games) - 1) :
               Reply.games[k].savings.v >= Reply.games[k + 1].savings.v
        /\ Len(Reply.games) = Len(req.pushed)
        /\ \A x \in Range(Reply.games) \cup Range(req.pushed) :
               Count(Reply.games, x) = Count(req.pushed, x)
        /\ Ids(req.pushed) =
               {req.cdkeysGames[j].id : j \in {i \in 1..Len(req.cdkeysGames) : Quoted(i) /\ Saves(i)}}

\* three results pushed in the order middle, highest, lowest come out as
\* highest, middle, lowest
SortedExample ==
    /\ Compared
    /\ [k \in 1..Len(req.pushed) |-> req.pushed[k].savings.v] = <<39413, 40000, 39000>>
    /\ [k \in 1..Len(Reply.games) |-> Reply.games[k].savings.v] = <<40000, 39413, 39000>>

\* C4: a product quoted by source B (not free) whose savings do not reach
\* minDifference is neither a result nor unmatched; when none of the M
\* quoted products of a listing of N reaches minDifference, there is no
\* result and there are exactly N - M unmatched products.
BelowThresholdInNeitherList ==
    Compared =>
        /\ \A j \in 1..Len(req.cdkeysGames) :
               Quoted(j) /\ ~Saves(j) =>
                   /\ req.cdkeysGames[j].id \notin Ids(Reply.games)
                   /\ req.cdkeysGames[j].id \notin Ids(Reply.notFound)
        /\ (\A j \in 1..Len(req.cdkeysGames) : Quoted(j) => ~Saves(j)) =>
               /\ Reply.games = <<>>
               /\ Reply.discountedGames = 0
               /\ Len(Reply.notFound) =
                      Len(req.cdkeysGames)
                      - Cardinality({j \in 1..Len(req.cdkeysGames) : Quoted(j)})
               /\ Reply.notFoundGames = Len(Reply.notFound)

\* three products, two of them quoted below the threshold: no result, one
\* unmatched product
TwoOfThreeBelowThreshold ==
    /\ Compared
    /\ Len(req.cdkeysGames) = 3
    /\ Cardinality({j \in 1..Len(req.cdkeysGames) : Quoted(j) /\ ~Saves(j)}) = 2
    /\ Reply.games = <<>>
    /\ Len(Reply.notFound) = 1

\* C7: when fetchCDKeysGames fails, the response is one error object
\* without games or notFound, and no request has gone to source B; a
\* compare request fails in no other case.
OnlyListingFailureAborts ==
    Done =>
        /\ (Reply.status = 500) <=> req.listingFailed
        /\ req.listingFailed =>
               /\ DOMAIN Reply = {"status", "error", "details"}
               /\ req.issued = 0
               /\ {c \in net : c.kind # "page"} = {}

\* the listing failed and the request was answered with the error
ListingFailedAnswered == Done /\ req.listingFailed /\ Reply.status = 500

\* C8: within a request the products are processed one at a time in
\* listing order, product i+1 only after the pause of product i, and the
\* only call to source B in flight is the one the handler is waiting for.
OneProductOneCallAtATime ==
    /\ Cardinality({c \in net : c.kind \in {"search", "details"}}) <= 1
    /\ \A c \in net : c.kind \in {"search", "details"} =>
           req.awaiting = c.id /\ req.pc = c.kind
    /\ req.started \in {req.paused, req.paused + 1}
    /\ req.pc \in {"search", "attemptPause", "details", "pause"} =>
           /\ req.started = req.idx
           /\ req.gameName = req.cdkeysGames[req.idx].name
           /\ Len(req.quotes) \in {req.idx - 1, req.idx}

\* the price of the second product is being fetched after the pause of the
\* first one
SecondProductInFlight ==
    /\ \E c \in net : c.kind = "details"
    /\ req.started = 2
    /\ req.paused = 1

\* C9: whatever the outcome of a product (result, below the threshold, not
\* found, free, failed call), its processing ends in the 1000 ms timer,
\* and the next product starts only when that timer has fired.
PauseAfterEveryProduct ==
    /\ [](Len(req.quotes) > req.paused => req.pc = "pause" /\ req.sleep = 1000)
    /\ [][req'.started = req.started + 1 /\ req.started >= 1
             => req.pc = "pause" /\ req.sleep = 1000]_vars

\* the timer runs after a product whose call to source B failed, and
\* another product follows
PauseAfterFailedProduct ==
    /\ req.pc = "pause"
    /\ req.sleep = 1000
    /\ req.idx < Len(req.cdkeysGames)
    /\ req.steamPrice = Null
    /\ \E t \in req.threw : t.idx = req.idx

\* C10: searchSteamGame looks the variants up in list order; it returns
\* the match of the first variant whose lookup yields an item, and null
\* only when every variant has been looked up without an item.
FirstVariantWithCandidateWins ==
    req.searchDone =>
        /\ Len(req.attemptLog) <= Len(req.attempts)
        /\ \A k \in 1..Len(req.attemptLog) :
               req.attemptLog[k].term = Trim(req.attempts[k])
        /\ \A k \in 1..(Len(req.attemptLog) - 1) :
               /\ req.attemptLog[k].outcome \in {"empty", "error"}
               /\ req.attemptLog[k].outcome = "empty" =>
                      storesearch[req.attemptLog[k].term] = <<>>
        /\ req.gameInfo # Null =>
               /\ Len(req.attemptLog) >= 1
               /\ req.attemptLog[Len(req.attemptLog)].outcome \in {"items", "cached"}
               /\ Len(storesearch[req.attemptLog[Len(req.attemptLog)].term]) > 0
               /\ req.gameInfo[1].appid =
                      storesearch[req.attemptLog[Len(req.attemptLog)].term][1].id
        /\ req.gameInfo = Null =>
               /\ Len(req.attemptLog) = Len(req.attempts)
               /\ \A k \in 1..Len(req.attemptLog) :
                      req.attemptLog[k].outcome \in {"empty", "error"}

\* a match taken from the third variant after two variants without an item
MatchFromLaterVariant ==
    /\ req.searchDone
    /\ req.gameInfo # Null
    /\ Len(req.attemptLog) = 3
    /\ req.attemptLog[1].outcome = "empty"
    /\ req.attemptLog[2].outcome = "empty"

\* what a result says once its id, which holds the time of the crawl and the
\* position in the listing, is left out
Content(list) == [k \in 1..Len(list) |-> [list[k] EXCEPT !.id = <<>>]]

\* the quote of product j of an answered request is the free sentinel
FreeQuote(quotes, j) == quotes[j] # Null /\ quotes[j][1].final = FREE

\* C5: a product whose quote from source B is the free sentinel is
\* unmatched and is no result; and the results of a compare whose listing
\* lacks that product are, in content and order, the results of the compare
\* whose listing has it.
FreeProductUnmatchedAndInert ==
    /\ Compared =>
           \A j \in 1..Len(req.cdkeysGames) :
               FreeQuote(req.quotes, j) =>
                   /\ req.cdkeysGames[j].id \in Ids(Reply.notFound)
                   /\ req.cdkeysGames[j].id \notin Ids(Reply.games)
    /\ ( /\ Done
         /\ Reply.status = 200
         /\ history # <<>>
         /\ history[1].response[1].status = 200
         /\ Len(history[1].cdkeysGames) > 0 )
       => \A k \in 1..Len(history[1].cdkeysGames) :
              ( /\ FreeQuote(history[1].quotes, k)
                /\ rawList(req.cdkeysGames) = Without(rawList(history[1].cdkeysGames), k) )
              => Content(Reply.games) = Content(history[1].response[1].games)

\* the listing Halo PC, Doom (free), Doom: Eternal gave two results; without
\* Doom it gives the same two results in the same order
SameResultsWithoutFreeProduct ==
    /\ Done
    /\ Reply.status = 200
    /\ history # <<>>
    /\ history[1].response[1].status = 200
    /\ Len(history[1].cdkeysGames) = 3
    /\ FreeQuote(history[1].quotes, 2)
    /\ rawList(req.cdkeysGames) = Without(rawList(history[1].cdkeysGames), 2)
    /\ Len(history[1].response[1].games) = 2
    /\ history[1].response[1].games[1].id = history[1].cdkeysGames[3].id
    /\ Len(Reply.games) = 2
    /\ Reply.games[1].id = req.cdkeysGames[2].id

\* C6 as stated: after a failed call to source B for a product, that
\* product is unmatched.
FailedProductIsUnmatched ==
    Compared =>
        \A t \in req.threw :
            /\ req.quotes[t.idx] = Null
            /\ req.cdkeysGames[t.idx].id \in Ids(Reply.notFound)

\* C6: a failed call to source B never makes compare fail: every product
\* of the listing is processed; a product whose price fetch failed has no
\* quote, and every product without a quote is unmatched (after a failed
\* search of one variant the later variants are still looked up).
FailedCallNeverAborts ==
    (Done /\ req.url # "" /\ ~req.listingFailed) =>
        /\ Reply.status = 200
        /\ Len(req.cdkeysGames) > 0 =>
               /\ req.started = Len(req.cdkeysGames)
               /\ Len(req.quotes) = Len(req.cdkeysGames)
               /\ Reply.totalGames = Len(Reply.games) + Len(Reply.notFound)
                       + Cardinality({j \in 1..Len(req.cdkeysGames) : Quoted(j) /\ ~Saves(j)})
               /\ \A t \in req.threw :
                      t.kind = "details" => req.quotes[t.idx] = Null
               /\ \A j \in 1..Len(req.cdkeysGames) :
                      req.quotes[j] = Null =>
                          /\ req.cdkeysGames[j].id \in Ids(Reply.notFound)
                          /\ req.cdkeysGames[j].id \notin Ids(Reply.games)

\* the price fetch of a product failed: it is unmatched, and the product
\* after it is a result
LaterProductAfterFailure ==
    /\ Compared
    /\ \E t \in req.threw :
           /\ t.kind = "details"
           /\ t.idx < Len(req.cdkeysGames)
           /\ req.cdkeysGames[t.idx].id \in Ids(Reply.notFound)
           /\ req.cdkeysGames[t.idx + 1].id \in Ids(Reply.games)

(***************************************************************************)
(* Properties of searchSteamGame                                           *)
(***************************************************************************)
\* a search request for a variant after the first one of a lookup is issued
\* in this step
LaterVariantRequested ==
    /\ req'.calls = req.calls + 1
    /\ req'.pc = "search"
    /\ req'.i > 1

\* C11: in searchSteamGame, after an attempt without success (no item, or a
\* request that failed or timed out), the search request of the next
\* variant is issued only when the 500 ms timer has elapsed.
PauseBeforeNextVariant ==
    [][LaterVariantRequested => req.pc = "attemptPause" /\ req.sleep = 500]_vars

\* the entries of the record of the lookup whose term went to the catalog
Sent == {k \in 1..Len(req.attemptLog) : req.attemptLog[k].outcome # "cached"}

\* C12: within one call of searchSteamGame the terms sent to the catalog are
\* pairwise distinct, and each of them has at least 3 characters.
TermsDistinctAndLong ==
    /\ \A a, b \in Sent : a # b => req.attemptLog[a].term # req.attemptLog[b].term
    /\ \A a \in Sent : Len(req.attemptLog[a].term) >= 3

\* the lookup has ended with the answer of the catalog to its last term
MatchedFromAnswer ==
    /\ req.searchDone
    /\ req.gameInfo # Null
    /\ Len(req.attemptLog) >= 1
    /\ req.attemptLog[Len(req.attemptLog)].outcome = "items"

\* the items the catalog returned for the last term of the lookup
Returned == storesearch[req.attemptLog[Len(req.attemptLog)].term]

\* the positions of the returned items whose type is game or dlc
GamesOrDlcs == {k \in 1..Len(Returned) : Returned[k].type \in {"game", "dlc"}}

\* the match is the item at position k of the answer
MatchIs(k) ==
    /\ req.gameInfo[1].appid = Returned[k].id
    /\ req.gameInfo[1].name = Returned[k].name
    /\ req.gameInfo[1].type = Returned[k].type

\* C13: when the search of a variant returns items, the match is the first
\* returned item whose type is game or dlc, and the first returned item
\* only when no item has such a type.
FirstGameOrDlcIsMatch ==
    MatchedFromAnswer =>
        /\ GamesOrDlcs # {} =>
               \E k \in GamesOrDlcs : MatchIs(k) /\ \A j \in GamesOrDlcs : k <= j
        /\ GamesOrDlcs = {} => MatchIs(1)

\* the answer lists a bundle, a dlc and a game: the dlc, second in the
\* answer, is the match
SecondItemMatched ==
    /\ MatchedFromAnswer
    /\ Len(Returned) = 3
    /\ Returned[1].type = "bundle"
    /\ MatchIs(2)
    /\ req.gameInfo[1].type = "dlc"

\* C14: the source of the match searchSteamGame returns names the position,
\* in the variant list of that call, of the variant that gave the match,
\* and its term, also when the match comes from the cache.
SourceNamesStageOfThisCall ==
    (req.searchDone /\ req.gameInfo # Null) =>
        /\ req.gameInfo[1].source.stage = Len(req.attemptLog)
        /\ req.gameInfo[1].source.term = Trim(req.attempts[Len(req.attemptLog)])

\* a number that is an integer: not NaN, not infinite
IsInteger(x) == ~x.nan /\ x.inf = 0

\* C15: every result of compare has an original price above 0 and hence a
\* savingsPercent that is an integer, whatever minDifference is; the test
\* for the free sentinel leaves out every quote whose original price
\* parses to 0.
OriginalPricePositive ==
    Compared =>
        /\ \A k \in 1..Len(Reply.games) :
               /\ IsInteger(Reply.games[k].steamOriginalPrice)
               /\ Reply.games[k].steamOriginalPrice.v > 0
               /\ IsInteger(Reply.games[k].savingsPercent)
        /\ \A j \in 1..Len(req.cdkeysGames) :
               (req.quotes[j] # Null /\ OriginalPrice(j) = Num(0)) => ~Quoted(j)

\* the price text is neither empty nor a free marker and holds none of the
\* four currency symbols: parsePrice falls through to its last line
Unparseable(priceString) ==
    /\ priceString # ""
    /\ priceString # FREE
    /\ ~Includes(ToLowerCase(priceString), "free")
    /\ \A c \in {WON, "$", EURO, POUND} : ~Includes(priceString, c)

\* C16: a product whose listed price could not be parsed is never a
\* result with listed price 0 and savings equal to the whole original
\* price of source B.
UnparsedPriceIsNoResult ==
    Compared =>
        \A j \in 1..Len(req.cdkeysGames) :
            Unparseable(req.cdkeysGames[j].price) =>
                ~\E k \in 1..Len(Reply.games) :
                    /\ Reply.games[k].id = req.cdkeysGames[j].id
                    /\ Reply.games[k].cdkeysPrice = Num(0)
                    /\ Reply.games[k].savings = Reply.games[k].steamOriginalPrice

(***************************************************************************)
(* Properties of parsePrice                                                *)
(***************************************************************************)
\* parsePrice has been called on a text written from Written = <<t>>
Parsed == call.fn = "parsePrice"

Written1 == call.of[1]

RateOf(symbol) ==
    CASE symbol = "$" -> 1320 [] symbol = EURO -> 1430 [] symbol = POUND -> 1670

\* num / 100 times rate, rounded to the nearest integer
Converted(num, rate) == (2 * num * rate + 100) \div 200

Cleaned == call.fn = "cleanGameName"

\* C19: cleanGameName("Some Game (PC/Mac)") is "Some Game", and
\* cleanGameName("AB PC") is "AB PC".
CleanExamples ==
    /\ (Cleaned /\ call.arg = "Some Game (PC/Mac)") => call.out = "Some Game"
    /\ (Cleaned /\ call.arg = "AB PC") => call.out = "AB PC"

\* C20: cleanGameName applied to a name it has returned returns that name.
CleanIsIdempotent ==
    (Cleaned /\ call.of # Null) => call.out = call.arg


\* what the stripping rules, applied in order, leave of the last title cleaned
Stripped == ApplyPatterns(Trim(call.arg), 1)

TooMuchStripped == Len(Stripped) < 3 \/ Len(Stripped) * 10 < 3 * Len(call.arg)

IsPrefix(p, s) == Len(p) <= Len(s) /\ SubSeq(s, 1, Len(p)) = p

PaddedTitleStripped ==
    /\ Cleaned
    /\ call.arg # Trim(call.arg)
    /\ ~TooMuchStripped
    /\ call.out # Trim(call.arg)


\* the key of the listing of the request being served
ListingKey == "cdkeys_" \o req'.url

PageCalls(calls) == {c \in calls : c.kind = "page"}

\* the keys of listings among the keys given
ListingKeys(keys) == {k \in keys : Len(k) >= 7 /\ SubSeq(k, 1, 7) = "cdkeys_"}

\* a compare request with a url arrives
Arrives == req.pc = "idle" /\ req'.pc # "idle" /\ req'.url # ""

\* the page fetch of the request returns
PageReturns == req.pc = "page" /\ req'.pc # "page"

\* C22: fetchCDKeysGames is cache-aside on the url.  With an entry for the
\* url that has not expired it returns the list of the entry and fetches no
\* page; without one it fetches the page; when the fetch succeeds it stores
\* the list in exactly one entry, keyed by the url, and returns that list;
\* when the fetch fails it leaves the cache as it was.
ListingIsCacheAside ==
    [][ /\ (Arrives /\ CacheGet(cache, ListingKey) # Null) =>
              /\ PageCalls(net') = {}
              /\ req'.calls = req'.issued
              /\ req'.cdkeysGames = cache[ListingKey]
        /\ (Arrives /\ CacheGet(cache, ListingKey) = Null) =>
              /\ PageCalls(net') = {[id |-> 1, kind |-> "page", arg |-> req'.url]}
              /\ cache' = cache
        /\ (PageReturns /\ ~req'.listingFailed) =>
              /\ ListingKeys(DOMAIN cache' \ DOMAIN cache) = {ListingKey}
              /\ cache'[ListingKey] = req'.cdkeysGames
              /\ \A k \in DOMAIN cache : cache'[k] = cache[k]
        /\ (PageReturns /\ req'.listingFailed) => cache' = cache
      ]_vars

\* the second request has been answered from the listing the first one
\* stored, without a page fetch
ListingServedFromCache ==
    /\ history # <<>>
    /\ ~history[1].listingFailed
    /\ Compared
    /\ req.calls = req.issued
    /\ req.cdkeysGames = history[1].cdkeysGames

\* the second request has fetched the page again, the entry of the first
\* one having expired
ListingFetchedAfterExpiry ==
    /\ history # <<>>
    /\ Len(history[1].cdkeysGames) > 0
    /\ Compared
    /\ req.calls > req.issued
    /\ call = NoCall


\* the first call of getSteamGameInfo has returned the details of a match
FirstInfoSucceeded ==
    /\ history # <<>>
    /\ history[1].op = "getSteamGameInfo"
    /\ history[1].gameInfo # Null
    /\ history[1].response[1].headerImage # ""

\* nothing has been flushed and no time has passed since the cache was
\* first written to
NothingExpired ==
    /\ call = NoCall
    /\ \A k \in DOMAIN ttl : ttl[k] = stdTTL

\* the second call of getSteamGameInfo has found the match of the first one
\* in the cache
SecondInfoSameMatch ==
    /\ req.op = "getSteamGameInfo"
    /\ req.gameInfo # Null
    /\ req.gameInfo[1].appid = history[1].gameInfo[1].appid
    /\ req.attemptLog[Len(req.attemptLog)].outcome = "cached"

\* C23: once getSteamGameInfo has returned the details of an id, a second
\* call that resolves to the same id, with nothing flushed or expired in
\* between, sends no request for the details.
DetailsOfAnIdRequestedOnce ==
    (FirstInfoSucceeded /\ NothingExpired /\ SecondInfoSameMatch)
        => {c \in net : c.kind = "info"} = {}


\* getSteamGameInfo has returned
InfoReturned == Done /\ req.op = "getSteamGameInfo"

\* it found no match, its request for the details threw, or the details
\* came without success
NoMatch == req.gameInfo = Null

InfoThrew == [idx |-> 0, kind |-> "info"] \in req.threw

InfoUnsuccessful ==
    /\ ~NoMatch
    /\ ~InfoThrew
    /\ ~appdetails[req.gameInfo[1].appid].success

\* C24 as stated: whenever getSteamGameInfo fails it returns an object whose
\* headerImage, screenshots and developer are all empty.
FailedInfoIsEmpty ==
    (InfoReturned /\ (NoMatch \/ InfoThrew \/ InfoUnsuccessful)) =>
        /\ Reply.headerImage = ""
        /\ Reply.screenshots = <<>>
        /\ Reply.developer = ""

\* C24: getSteamGameInfo always returns a metadata object.  Without a match
\* its headerImage, screenshots and developer are empty; when the request
\* for the details throws or the details come without success, headerImage
\* and screenshots are empty and developer is "Unknown Developer".
FailedInfoIsEmptyOrUnknown ==
    InfoReturned =>
        /\ DOMAIN Reply = {"title", "headerImage", "screenshots", "developer"}
        /\ Reply.title # ""
        /\ NoMatch =>
              Reply = [title |-> req.gameName, headerImage |-> "",
                       screenshots |-> <<>>, developer |-> ""]
        /\ (InfoThrew \/ InfoUnsuccessful) =>
              Reply = [title |-> req.gameName, headerImage |-> "",
                       screenshots |-> <<>>, developer |-> "Unknown Developer"]

\* the request for the details has timed out and the function has returned
InfoReturnedAfterThrow == InfoReturned /\ InfoThrew


\* the request answered now and the one answered before it asked for the
\* same comparison and saw the same listing
SameComparison ==
    /\ history # <<>>
    /\ Compared
    /\ history[1].response[1].status = 200
    /\ history[1].url = req.url
    /\ history[1].minDifference = req.minDifference
    /\ rawList(history[1].cdkeysGames) = rawList(req.cdkeysGames)

\* the product, the prices and the savings of every result, in order
Figures(games) ==
    [k \in 1..Len(games) |->
        [originalName |-> games[k].originalName, name |-> games[k].name,
         cdkeysUrl |-> games[k].cdkeysUrl, cdkeysPrice |-> games[k].cdkeysPrice,
         steamOriginalPrice |-> games[k].steamOriginalPrice,
         steamFinalPrice |-> games[k].steamFinalPrice,
         steamDiscount |-> games[k].steamDiscount,
         savings |-> games[k].savings, savingsPercent |-> games[k].savingsPercent,
         steamAppId |-> games[k].steamAppId]]

\* C25: two compare requests for the same url and minDifference that see
\* the same listing and the same catalog return the same results (products,
\* prices, savings, order) and the same unmatched products, whatever the
\* cache held when each began and wherever DELETE /api/cache or the expiry
\* of entries fell.
SameResultsWhateverTheCache ==
    SameComparison =>
        /\ Figures(Reply.games) = Figures(history[1].response[1].games)
        /\ Content(Reply.notFound) = Content(history[1].response[1].notFound)

\* the second request found the listing in the cache and every product in
\* the catalog, after the cache had been emptied while it ran
FlushedWhileComparing ==
    /\ SameComparison
    /\ call.fn = "flushAll"
    /\ req.calls = req.issued
    /\ req.issued > 0
    /\ Len(Reply.games) = 2
    /\ Len(history[1].response[1].games) = 2

\* the same, for everything a result carries but its id
SameResultsInFull ==
    SameComparison =>
        /\ Content(Reply.games) = Content(history[1].response[1].games)
        /\ Content(Reply.notFound) = Content(history[1].response[1].notFound)


\* C26: cache.get(k) returns v exactly when the latest cache.set(k, v) is
\* not past its expiry, stdTTL = 3600 seconds after it, and flushAll has not
\* been called since.  Step by step: an entry that is set has 3600 seconds
\* to live; an entry keeps its value while it is there; it goes only by
\* flushAll or when time passes beyond its expiry, and then it does go;
\* right after flushAll the cache has no key.
ReadsWhatWasSetUntilExpiry ==
    [][ LET gone == DOMAIN cache \ DOMAIN cache'
            kept == DOMAIN cache \cap DOMAIN cache'
            timePassed == \E k \in kept : ttl'[k] < ttl[k]
        IN  /\ DOMAIN ttl' = DOMAIN cache'
            /\ \A k \in DOMAIN cache' \ DOMAIN cache : ttl'[k] = 3600
            /\ \A k \in kept : cache'[k] = cache[k] /\ ttl'[k] >= 0 /\ ttl'[k] <= ttl[k]
            /\ timePassed =>
                  \A k \in DOMAIN cache :
                      /\ k \in kept => ttl'[k] = ttl[k] - 1800
                      /\ k \in gone <=> ttl[k] < 1800
            /\ (gone # {} /\ ~timePassed) =>
                  \/ call'.fn = "flushAll" /\ Cardinality(DOMAIN cache') = 0
                  \/ \A k \in gone : ttl[k] < 1800
            /\ (call' # call /\ call'.fn = "flushAll") => Cardinality(DOMAIN cache') = 0
      ]_vars

\* what the first request stored has expired, all of it, and nothing was
\* flushed
AllExpired ==
    /\ call = NoCall
    /\ history # <<>>
    /\ Len(history[1].cdkeysGames) > 0
    /\ req.pc = "idle"
    /\ cache = EmptyCache

\* an entry is still read at the very second of its expiry
ReadAtExpiry == \E k \in DOMAIN cache : ttl[k] = 0


\* the request is suspended on a call that is in flight or on a timer that
\* is running
Pending ==
    \/ req.pc \in {"page", "search", "details"}
          /\ \E c \in net : c.id = req.awaiting /\ c.kind = req.pc
    \/ req.pc = "attemptPause" /\ req.sleep = 500
    \/ req.pc = "pause" /\ req.sleep = 1000

\* what is left of the product being processed: the terms still to try
\* (at most 8, each a request and a pause), the details, the pause
LeftOfProduct(r) ==
    CASE r.pc = "search" -> 4 + 2 * (Len(r.attempts) - r.i)
      [] r.pc = "attemptPause" -> 3 + 2 * (Len(r.attempts) - r.i)
      [] r.pc = "details" -> 2
      [] r.pc = "pause" -> 1

\* what is left of the request: the page, then 32 for every product not
\* yet begun and the rest of the one begun; nothing when it is answered
Left(r) ==
    CASE r.pc = "done" -> 0
      [] r.pc = "page" -> 32 * (MaxProducts + 2)
      [] OTHER -> 32 * (Len(r.cdkeysGames) - r.idx) + LeftOfProduct(r)

\* C27: every compare request is answered in the end, provided every call
\* returns, fails or times out and every timer fires: until it is answered
\* the request waits for a call in flight or a running timer, and what is
\* left of it shrinks with every call that ends and every timer that fires.
\* It is answered once: the answer, once given, stays as it is.  A lookup
\* tries at most 8 terms, and when the listing has been compared every
\* product of it has been taken up exactly once.
EveryRequestAnswered ==
    /\ [](req.pc \notin {"idle", "done"} => Pending)
    /\ [][req.pc # "idle" => Left(req') < Left(req)]_vars
    /\ [][req.response # Null => req'.response = req.response]_vars
    /\ [](Done <=> req.response # Null)
    /\ [](Len(req.attempts) <= 8 /\ Len(req.attemptLog) <= 8)
    /\ [](Compared =>
            /\ req.started = Len(req.cdkeysGames)
            /\ Len(req.quotes) = Len(req.cdkeysGames)
            /\ req.idx = Len(req.cdkeysGames) + 1)

\* a listing of three products has been compared although a call failed
ThreeComparedAfterFailure ==
    /\ Compared
    /\ Len(req.cdkeysGames) = 3
    /\ req.threw # {}


\* C28: when a listing of N > 0 products has been compared, every product
\* is in games, or in notFound, or in neither, having a quote whose savings
\* are below the threshold; none is in both lists or twice in one, both
\* lists hold listed products only, and the answer counts N products, the
\* games and the notFound entries.
ProductsInOneGroupAndCounted ==
    Compared =>
        /\ Ids(Reply.games) \cap Ids(Reply.notFound) = {}
        /\ Ids(Reply.games) \cup Ids(Reply.notFound) \subseteq Ids(req.cdkeysGames)
        /\ Cardinality(Ids(Reply.games)) = Len(Reply.games)
        /\ Cardinality(Ids(Reply.notFound)) = Len(Reply.notFound)
        /\ Cardinality(Ids(req.cdkeysGames)) = Len(req.cdkeysGames)
        /\ \A j \in 1..Len(req.cdkeysGames) :
              /\ req.cdkeysGames[j].id \in Ids(Reply.notFound) <=> ~Quoted(j)
              /\ req.cdkeysGames[j].id \notin Ids(Reply.games) \cup Ids(Reply.notFound)
                    => Quoted(j) /\ ~Saves(j)
        /\ Reply.totalGames = Len(req.cdkeysGames)
        /\ Reply.discountedGames = Len(Reply.games)
        /\ Reply.notFoundGames = Len(Reply.notFound)

\* a listing of three products with one product in each group
OneProductInEachGroup ==
    /\ Compared
    /\ Len(req.cdkeysGames) = 3
    /\ Len(Reply.games) = 1
    /\ Len(Reply.notFound) = 1


\* the tries of the first lookup, and the term that gave its match
FirstLog == history[1].attemptLog

FirstTerm == FirstLog[Len(FirstLog)].term

\* the name that was resolved by the first call is resolved again while the
\* entry of its match is in the cache
ResolvedAgain ==
    /\ req.pc = "idle"
    /\ req'.pc # "idle"
    /\ history # <<>>
    /\ history[1].gameInfo # Null
    /\ req'.gameName = history[1].gameName
    /\ CacheGet(cache, "steam_search_" \o FirstTerm) # Null

SearchCalls(calls) == {c \in calls : c.kind = "search"}

\* C29 as stated: the repeated lookup returns the match of the first one
\* and sends no search request, at whichever variant the first one
\* succeeded.
ResolvedAgainWithoutSearch ==
    [][ResolvedAgain =>
          /\ SearchCalls(net') = {}
          /\ req'.gameInfo = history[1].gameInfo]_vars

\* C29: when the first lookup succeeded at the first variant of its list,
\* the repeated lookup returns its match and sends no search request; when
\* it succeeded at a later variant, the repeated lookup begins by searching
\* the first variant again.  A match the repeated lookup takes from the
\* cache at the term of the first one is the match of the first one.
ResolvedAgainFromFirstVariant ==
    /\ [][ResolvedAgain =>
             IF Len(FirstLog) = 1
             THEN /\ SearchCalls(net') = {}
                  /\ req'.gameInfo = history[1].gameInfo
                  /\ req'.attemptLog = <<[term |-> FirstTerm, outcome |-> "cached"]>>
             ELSE /\ SearchCalls(net') =
                         {[id |-> 1, kind |-> "search", arg |-> FirstLog[1].term]}
                  /\ req'.gameInfo = Null]_vars
    /\ []((/\ history # <<>>
            /\ history[1].gameInfo # Null
            /\ req.gameInfo # Null
            /\ req.attemptLog[Len(req.attemptLog)] = [term |-> FirstTerm, outcome |-> "cached"])
           => req.gameInfo = history[1].gameInfo)

\* the repeated lookup has found the match of the first variant in the cache
\* and waits for the details
FirstVariantFromCache ==
    /\ history # <<>>
    /\ Len(FirstLog) = 1
    /\ req.gameName = history[1].gameName
    /\ req.pc = "info"
    /\ req.issued = 1
    /\ req.gameInfo = history[1].gameInfo


\* the calls of initBrowser that have returned, and the calls of puppeteer.launch
BrowserReturned == {c \in DOMAIN puppeteer.callers : puppeteer.callers[c].pc = "returned"}

BrowserLaunches == {c \in DOMAIN puppeteer.callers : puppeteer.callers[c].launch # 0}

\* C30: whatever the order in which the callers of initBrowser run,
\* puppeteer.launch is called at most once, at most one browser is made,
\* and every caller that returns gets the same browser.
OneBrowserForAllCallers ==
    /\ Cardinality(BrowserLaunches) <= 1
    /\ Cardinality(puppeteer.created) <= 1
    /\ \A c, d \in BrowserReturned : puppeteer.callers[c].got = puppeteer.callers[d].got

\* the same with no launch failing: only the number of browsers made and
\* the browsers handed out
OneBrowserMade ==
    /\ Cardinality(puppeteer.created) <= 1
    /\ \A c, d \in BrowserReturned : puppeteer.callers[c].got = puppeteer.callers[d].got

====
